---- MODULE Spec2Model ----
(***************************************************************************)
(* Model of the EAV schema validation engine of django-eav-json-fields     *)
(* (src/eav_fields/eav.py): attribute descriptors, their coercion and      *)
(* constraint checks, JSON conversion, and EAVSchema.validate.             *)
(***************************************************************************)
EXTENDS Integers, Sequences, FiniteSets, TLC

(***************************************************************************)
(* Python values.  Every value is a record tagged by its Python type `t`.  *)
(* A str is a sequence of one-character strings, so that str(), Decimal()  *)
(* parsing and len() operate on characters.  A float is finite (`h` is the *)
(* number of halves: h = 3 is 1.5), nan or +-inf.  A Decimal is the        *)
(* (sign, coefficient, exponent) triple of decimal.Decimal, or NaN or      *)
(* +-Infinity.                                                             *)
(***************************************************************************)
None == [t |-> "none"]

PyBool(b) == [t |-> "bool", b |-> b]

PyInt(n) == [t |-> "int", n |-> n]

PyFloat(h) == [t |-> "float", k |-> "fin", h |-> h]

FloatNaN == [t |-> "float", k |-> "nan", h |-> 0]

FloatInf == [t |-> "float", k |-> "inf", h |-> 1]

PyStr(s) == [t |-> "str", s |-> s]

Dec(sign, coef, exp) == [t |-> "dec", k |-> "fin", sign |-> sign, coef |-> coef, exp |-> exp]

DecNaN == [t |-> "dec", k |-> "nan", sign |-> 0, coef |-> 0, exp |-> 0]

DecInf(sign) == [t |-> "dec", k |-> "inf", sign |-> sign, coef |-> 0, exp |-> 0]

PyList(items) == [t |-> "list", items |-> items]

PyDict(m) == [t |-> "dict", m |-> m]

EmptyMap == [k \in {} |-> None]

(***************************************************************************)
(* Character-level helpers used by str() and by the Decimal parser.        *)
(***************************************************************************)
DigitChars == <<"0", "1", "2", "3", "4", "5", "6", "7", "8", "9">>

IsDigit(c) == \E i \in 1..10 : DigitChars[i] = c

DigitVal(c) == (CHOOSE i \in 1..10 : DigitChars[i] = c) - 1

RECURSIVE NatToChars(_)
NatToChars(n) == IF n < 10 THEN <<DigitChars[n + 1]>>
                 ELSE NatToChars(n \div 10) \o <<DigitChars[(n % 10) + 1]>>

IntToChars(n) == IF n < 0 THEN <<"-">> \o NatToChars(-n) ELSE NatToChars(n)

RECURSIVE CharsToNat(_)
CharsToNat(s) == IF s = <<>> THEN 0
                 ELSE 10 * CharsToNat(SubSeq(s, 1, Len(s) - 1)) + DigitVal(s[Len(s)])

RECURSIVE DigitPrefixLen(_)
DigitPrefixLen(s) == IF s = <<>> \/ ~IsDigit(s[1]) THEN 0
                     ELSE 1 + DigitPrefixLen(Tail(s))

RECURSIVE Zeros(_)
Zeros(n) == IF n <= 0 THEN <<>> ELSE <<"0">> \o Zeros(n - 1)

RECURSIVE Pow10(_)
Pow10(n) == IF n <= 0 THEN 1 ELSE 10 * Pow10(n - 1)

Lower(c) == CASE c = "E" -> "e" [] c = "N" -> "n" [] c = "A" -> "a"
              [] c = "I" -> "i" [] c = "F" -> "f" [] c = "T" -> "t"
              [] c = "Y" -> "y" [] OTHER -> c

LowerAll(s) == [i \in 1..Len(s) |-> Lower(s[i])]

RECURSIVE LStrip(_)
LStrip(s) == IF s # <<>> /\ s[1] = " " THEN LStrip(Tail(s)) ELSE s

RECURSIVE RStrip(_)
RStrip(s) == IF s # <<>> /\ s[Len(s)] = " " THEN RStrip(SubSeq(s, 1, Len(s) - 1)) ELSE s

Strip(s) == RStrip(LStrip(s))

RECURSIVE RemoveUnderscores(_)
RemoveUnderscores(s) == IF s = <<>> THEN <<>>
                        ELSE IF s[1] = "_" THEN RemoveUnderscores(Tail(s))
                        ELSE <<s[1]>> \o RemoveUnderscores(Tail(s))

Drop(s, n) == SubSeq(s, n + 1, Len(s))

(***************************************************************************)
(* decimal.Decimal: construction from a string, str(), as_tuple() digit    *)
(* count, and numeric comparison.                                          *)
(***************************************************************************)
NumDigits(coef) == Len(NatToChars(coef))

\* The exponent part of a numeric literal: "" or E[+-]?digits+ up to the end.
ExponentDigits(neg, ds) ==
    IF ds # <<>> /\ DigitPrefixLen(ds) = Len(ds)
    THEN [ok |-> TRUE, e |-> IF neg THEN -CharsToNat(ds) ELSE CharsToNat(ds)]
    ELSE [ok |-> FALSE, e |-> 0]

ParseExponent(r) ==
    IF r = <<>> THEN [ok |-> TRUE, e |-> 0]
    ELSE IF Lower(r[1]) # "e" THEN [ok |-> FALSE, e |-> 0]
    ELSE IF Len(r) > 1 /\ r[2] \in {"+", "-"} THEN ExponentDigits(r[2] = "-", Drop(r, 2))
    ELSE ExponentDigits(FALSE, Tail(r))

\* sign, integer digits, fraction digits and exponent of a numeric literal
DecimalOfParts(sign, int, frac, ex) ==
    IF (int # <<>> \/ frac # <<>>) /\ ex.ok
    THEN [ok |-> TRUE, v |-> Dec(sign, CharsToNat(int \o frac), ex.e - Len(frac))]
    ELSE [ok |-> FALSE, v |-> None]

\* r1 is what follows the integer digits: an optional "." and fraction digits
ParseFraction(sign, int, r1, n2) ==
    IF r1 # <<>> /\ r1[1] = "."
    THEN DecimalOfParts(sign, int, SubSeq(r1, 2, n2 + 1), ParseExponent(Drop(r1, n2 + 1)))
    ELSE DecimalOfParts(sign, int, <<>>, ParseExponent(r1))

ParseNumber(sign, body, n1) ==
    ParseFraction(sign, SubSeq(body, 1, n1), Drop(body, n1),
                  DigitPrefixLen(Drop(body, n1 + 1)))

ParseBody(sign, body, low) ==
    IF low = <<"i", "n", "f">> \/ low = <<"i", "n", "f", "i", "n", "i", "t", "y">>
    THEN [ok |-> TRUE, v |-> DecInf(sign)]
    ELSE IF Len(low) >= 3 /\ SubSeq(low, 1, 3) = <<"n", "a", "n">>
            /\ DigitPrefixLen(Drop(low, 3)) = Len(low) - 3
    THEN [ok |-> TRUE, v |-> [DecNaN EXCEPT !.sign = sign]]
    ELSE ParseNumber(sign, body, DigitPrefixLen(body))

ParseSigned(t) ==
    IF t # <<>> /\ t[1] \in {"+", "-"}
    THEN ParseBody(IF t[1] = "-" THEN 1 ELSE 0, Tail(t), LowerAll(Tail(t)))
    ELSE ParseBody(0, t, LowerAll(t))

\* Decimal(<str>): ok = FALSE stands for decimal.InvalidOperation.
DecimalFromChars(s) == ParseSigned(RemoveUnderscores(Strip(s)))

\* Decimal.__str__ (scientific notation when exp > 0 or more than six
\* leading fractional zeros).
DecimalToChars(d) ==
    LET sg == IF d.sign = 1 THEN <<"-">> ELSE <<>>
        int == NatToChars(d.coef)
        leftdigits == d.exp + Len(int)
        dotplace == IF d.exp <= 0 /\ leftdigits > -6 THEN leftdigits ELSE 1
        intpart == IF dotplace <= 0 THEN <<"0">>
                   ELSE IF dotplace >= Len(int) THEN int \o Zeros(dotplace - Len(int))
                   ELSE SubSeq(int, 1, dotplace)
        fracpart == IF dotplace <= 0 THEN <<".">> \o Zeros(-dotplace) \o int
                    ELSE IF dotplace >= Len(int) THEN <<>>
                    ELSE <<".">> \o Drop(int, dotplace)
        e == leftdigits - dotplace
        exppart == IF e = 0 THEN <<>>
                   ELSE <<"E">> \o (IF e > 0 THEN <<"+">> ELSE <<>>) \o IntToChars(e)
    IN CASE d.k = "nan" -> sg \o <<"N", "a", "N">>
         [] d.k = "inf" -> sg \o <<"I", "n", "f", "i", "n", "i", "t", "y">>
         [] OTHER -> sg \o intpart \o fracpart \o exppart

\* str(float): repr of a float that is a whole number of halves.
FloatToChars(f) ==
    CASE f.k = "nan" -> <<"n", "a", "n">>
      [] f.k = "inf" -> IF f.h < 0 THEN <<"-", "i", "n", "f">> ELSE <<"i", "n", "f">>
      [] OTHER -> LET a == IF f.h < 0 THEN -f.h ELSE f.h
                  IN (IF f.h < 0 THEN <<"-">> ELSE <<>>) \o NatToChars(a \div 2)
                     \o (IF a % 2 = 0 THEN <<".", "0">> ELSE <<".", "5">>)

\* Python's str(value).
Str(v) ==
    CASE v.t = "str" -> v.s
      [] v.t = "int" -> IntToChars(v.n)
      [] v.t = "float" -> FloatToChars(v)
      [] v.t = "dec" -> DecimalToChars(v)
      [] v.t = "bool" -> IF v.b THEN <<"T", "r", "u", "e">> ELSE <<"F", "a", "l", "s", "e">>
      [] v.t = "none" -> <<"N", "o", "n", "e">>
      [] OTHER -> <<"[", "]">>

RECURSIVE Join(_)
Join(s) == IF s = <<>> THEN "" ELSE s[1] \o Join(Tail(s))

\* Python's repr(value), as used in the "must be one of" message.
Repr(v) ==
    CASE v.t = "str" -> "'" \o Join(v.s) \o "'"
      [] v.t = "dec" -> "Decimal('" \o Join(Str(v)) \o "')"
      [] OTHER -> Join(Str(v))

(***************************************************************************)
(* Python comparison.  A finite number is m * 10^e; bool counts as int.    *)
(***************************************************************************)
IsNumber(v) == v.t \in {"bool", "int", "float", "dec"}

IsNaN(v) == v.t \in {"float", "dec"} /\ v.k = "nan"

IsInf(v) == v.t \in {"float", "dec"} /\ v.k = "inf"

InfSign(v) == IF v.t = "float" THEN (IF v.h < 0 THEN -1 ELSE 1)
              ELSE (IF v.sign = 1 THEN -1 ELSE 1)

Mant(v) == CASE v.t = "bool" -> IF v.b THEN 1 ELSE 0
             [] v.t = "int" -> v.n
             [] v.t = "float" -> 5 * v.h
             [] OTHER -> IF v.sign = 1 THEN -v.coef ELSE v.coef

Expo(v) == CASE v.t = "float" -> -1
             [] v.t = "dec" -> v.exp
             [] OTHER -> 0

Sign(x, y) == IF x < y THEN -1 ELSE IF x > y THEN 1 ELSE 0

Min(x, y) == IF x < y THEN x ELSE y

Scaled(v, e) == Mant(v) * Pow10(Expo(v) - e)

\* -1, 0 or 1 as a < b, a = b, a > b, for numbers that are not NaN.
NumCmp(a, b) ==
    IF IsInf(a) \/ IsInf(b)
    THEN Sign(IF IsInf(a) THEN InfSign(a) ELSE 0, IF IsInf(b) THEN InfSign(b) ELSE 0)
    ELSE Sign(Scaled(a, Min(Expo(a), Expo(b))), Scaled(b, Min(Expo(a), Expo(b))))

\* a == b
PyEq(a, b) ==
    IF IsNumber(a) /\ IsNumber(b)
    THEN ~IsNaN(a) /\ ~IsNaN(b) /\ NumCmp(a, b) = 0
    ELSE a = b

\* a < b: a boolean, or the exception the comparison raises.
PyLt(a, b) ==
    IF ~IsNumber(a) \/ ~IsNumber(b) THEN [ok |-> FALSE, exc |-> "TypeError", b |-> FALSE]
    ELSE IF (a.t = "dec" /\ IsNaN(b)) \/ (b.t = "dec" /\ IsNaN(a))
         THEN [ok |-> FALSE, exc |-> "InvalidOperation", b |-> FALSE]
    ELSE IF IsNaN(a) \/ IsNaN(b) THEN [ok |-> TRUE, exc |-> "", b |-> FALSE]
    ELSE [ok |-> TRUE, exc |-> "", b |-> NumCmp(a, b) < 0]

\* value in choices (list containment: identity or ==).
PyIn(v, items) == \E i \in 1..Len(items) : items[i] = v \/ PyEq(v, items[i])

\* Truthiness of a value (bool(value)).
Truthy(v) ==
    CASE v.t = "none" -> FALSE
      [] v.t = "bool" -> v.b
      [] v.t = "int" -> v.n # 0
      [] v.t = "float" -> ~(v.k = "fin" /\ v.h = 0)
      [] v.t = "dec" -> ~(v.k = "fin" /\ v.coef = 0)
      [] v.t = "str" -> v.s # <<>>
      [] v.t = "list" -> v.items # <<>>
      [] OTHER -> DOMAIN v.m # {}

(***************************************************************************)
(* Results of a call: a returned value, or a raised exception.  A          *)
(* ValidationError carries a list of messages (msgs) or a dict of lists    *)
(* (dict); any other exception carries only its class name.                *)
(***************************************************************************)
Return(v) == [ok |-> TRUE, v |-> v, exc |-> "", msgs |-> <<>>, dict |-> None]

Raise(exc) == [ok |-> FALSE, v |-> None, exc |-> exc, msgs |-> <<>>, dict |-> None]

\* ValidationError(<list of messages>): has .messages, no .message_dict
ValidationError(msgs) ==
    [ok |-> FALSE, v |-> None, exc |-> "ValidationError", msgs |-> msgs, dict |-> None]

\* ValidationError(<dict: field -> list of messages>): has .message_dict
ValidationErrorDict(m) ==
    [ok |-> FALSE, v |-> None, exc |-> "ValidationError", msgs |-> <<>>, dict |-> PyDict(m)]

(***************************************************************************)
(* Attribute descriptors.  One record shape for the five classes; a        *)
(* constraint a class does not have is None.                               *)
(***************************************************************************)
EAVAttribute(cls, required, default, choices) ==
    [cls |-> cls, name |-> "", required |-> required, default |-> default,
     choices |-> choices, max_length |-> None, min_value |-> None,
     max_value |-> None, max_digits |-> None, decimal_places |-> None]

EAVString(max_length, required, default, choices) ==
    [EAVAttribute("EAVString", required, default, choices) EXCEPT !.max_length = max_length]

EAVBoolean(required, default, choices) ==
    EAVAttribute("EAVBoolean", required, default, choices)

EAVInteger(min_value, max_value, required, default, choices) ==
    [EAVAttribute("EAVInteger", required, default, choices)
        EXCEPT !.min_value = min_value, !.max_value = max_value]

EAVFloat(min_value, max_value, required, default, choices) ==
    [EAVAttribute("EAVFloat", required, default, choices)
        EXCEPT !.min_value = min_value, !.max_value = max_value]

\* Decimal(str(x)) if x is not None else None, for the constructor's bounds.
DecimalOfBound(x) == IF x = None THEN None ELSE DecimalFromChars(Str(x)).v

EAVDecimal(max_digits, decimal_places, min_value, max_value, required, default, choices) ==
    [EAVAttribute("EAVDecimal", required, default, choices)
        EXCEPT !.max_digits = max_digits, !.decimal_places = decimal_places,
               !.min_value = DecimalOfBound(min_value),
               !.max_value = DecimalOfBound(max_value)]

json_type(attr) ==
    CASE attr.cls = "EAVString" -> "string"
      [] attr.cls = "EAVBoolean" -> "boolean"
      [] attr.cls = "EAVInteger" -> "integer"
      [] attr.cls = "EAVFloat" -> "number"
      [] OTHER -> "decimal"

\* EAVAttribute._coerce, inherited by EAVString: isinstance(value, str).
EAVAttribute_coerce(attr, value) ==
    IF value.t # "str"
    THEN ValidationError(<<attr.name \o " must be a " \o json_type(attr) \o ".">>)
    ELSE Return(value)

EAVBoolean_coerce(attr, value) ==
    IF value.t # "bool"
    THEN ValidationError(<<attr.name \o " must be a boolean.">>)
    ELSE Return(value)

\* Mutant: only isinstance(value, int) is tested, which a bool passes.
EAVInteger_coerce_BoolIsInt(attr, value) ==
    IF value.t \notin {"int", "bool"}
    THEN ValidationError(<<attr.name \o " must be an integer.">>)
    ELSE Return(value)

EAVInteger_coerce(attr, value) ==
    IF value.t = "bool" THEN ValidationError(<<attr.name \o " must be an integer.">>)
    ELSE IF value.t # "int" THEN ValidationError(<<attr.name \o " must be an integer.">>)
    ELSE Return(value)

\* Mutant: an integer is not widened to a float but rejected.
EAVFloat_coerce_RejectsInt(attr, value) ==
    IF value.t # "float" THEN ValidationError(<<attr.name \o " must be a number.">>)
    ELSE Return(value)

EAVFloat_coerce(attr, value) ==
    IF value.t = "bool" THEN ValidationError(<<attr.name \o " must be a number.">>)
    ELSE IF value.t = "int" THEN Return(PyFloat(2 * value.n))
    ELSE IF value.t # "float" THEN ValidationError(<<attr.name \o " must be a number.">>)
    ELSE Return(value)

\* try: return Decimal(str(value)) / except InvalidOperation: raise ...
DecimalOrInvalid(attr, d) ==
    IF d.ok THEN Return(d.v)
    ELSE ValidationError(<<attr.name \o " must be a valid decimal.">>)

EAVDecimal_coerce(attr, value) ==
    IF value.t = "bool" THEN ValidationError(<<attr.name \o " must be a decimal.">>)
    ELSE IF value.t = "dec" THEN Return(value)
    ELSE IF value.t \in {"int", "float", "str"}
         THEN DecimalOrInvalid(attr, DecimalFromChars(Str(value)))
    ELSE ValidationError(<<attr.name \o " must be a decimal.">>)

\* Dispatch of self._coerce on the descriptor's class.
Coerce(attr, value) ==
    CASE attr.cls = "EAVString" -> EAVAttribute_coerce(attr, value)
      [] attr.cls = "EAVBoolean" -> EAVBoolean_coerce(attr, value)
      [] attr.cls = "EAVInteger" -> EAVInteger_coerce(attr, value)
      [] attr.cls = "EAVFloat" -> EAVFloat_coerce(attr, value)
      [] OTHER -> EAVDecimal_coerce(attr, value)

\* EAVString._check_constraints
EAVString_check_constraints(attr, value) ==
    IF attr.max_length # None /\ Len(value.s) > attr.max_length.n
    THEN ValidationError(<<attr.name \o " must be at most "
                           \o Join(Str(attr.max_length)) \o " characters.">>)
    ELSE Return(None)

\* The min_value / max_value tests shared, line for line, by the Integer,
\* Float and Decimal descriptors.  lo is "value < min_value" and hi is
\* "value > max_value"; a comparison that raises propagates.
NoCmp == [ok |-> TRUE, exc |-> "", b |-> FALSE]

RangeOutcome(attr, lo, hi) ==
    IF ~lo.ok THEN Raise(lo.exc)
    ELSE IF lo.b
    THEN ValidationError(<<attr.name \o " must be >= " \o Join(Str(attr.min_value)) \o ".">>)
    ELSE IF ~hi.ok THEN Raise(hi.exc)
    ELSE IF hi.b
    THEN ValidationError(<<attr.name \o " must be <= " \o Join(Str(attr.max_value)) \o ".">>)
    ELSE Return(None)

RangeCheck(attr, value) ==
    RangeOutcome(attr,
                 IF attr.min_value # None THEN PyLt(value, attr.min_value) ELSE NoCmp,
                 IF attr.max_value # None THEN PyLt(attr.max_value, value) ELSE NoCmp)

EAVInteger_check_constraints(attr, value) == RangeCheck(attr, value)

EAVFloat_check_constraints(attr, value) == RangeCheck(attr, value)

\* Mutant: max_digits bounds the number of digits of the coefficient.
DigitCheck_TotalDigits(attr, value) ==
    IF attr.max_digits = None /\ attr.decimal_places = None THEN Return(None)
    ELSE IF value.k # "fin" THEN Raise("TypeError")
    ELSE IF attr.decimal_places # None /\ value.exp < 0 /\ -value.exp > attr.decimal_places.n
    THEN ValidationError(<<attr.name \o " must have at most "
                           \o Join(Str(attr.decimal_places)) \o " decimal places.">>)
    ELSE IF attr.max_digits # None /\ NumDigits(value.coef) > attr.max_digits.n
    THEN ValidationError(<<attr.name \o " has too many digits (max "
                           \o Join(Str(attr.max_digits)) \o ").">>)
    ELSE Return(None)

\* The digit-count part of EAVDecimal._check_constraints.  as_tuple() of a
\* NaN or an Infinity has a string exponent, so "exponent < 0" raises
\* TypeError.
DigitCheck(attr, value) ==
    IF attr.max_digits = None /\ attr.decimal_places = None THEN Return(None)
    ELSE IF value.k # "fin" THEN Raise("TypeError")
    ELSE LET num_digits == NumDigits(value.coef)
             decimals == IF value.exp < 0 THEN -value.exp ELSE 0
             whole_digits == num_digits - decimals
             max_whole == attr.max_digits.n
                          - (IF attr.decimal_places # None THEN attr.decimal_places.n ELSE 0)
         IN IF attr.decimal_places # None /\ decimals > attr.decimal_places.n
            THEN ValidationError(<<attr.name \o " must have at most "
                                   \o Join(Str(attr.decimal_places)) \o " decimal places.">>)
            ELSE IF attr.max_digits # None /\ whole_digits > max_whole
            THEN ValidationError(<<attr.name \o " has too many digits (max "
                                   \o Join(Str(attr.max_digits)) \o ").">>)
            ELSE Return(None)

ThenDigitCheck(attr, value, r) == IF ~r.ok THEN r ELSE DigitCheck(attr, value)

EAVDecimal_check_constraints(attr, value) ==
    ThenDigitCheck(attr, value, RangeCheck(attr, value))

\* Dispatch of self._check_constraints; the base class (EAVBoolean) checks
\* nothing.
CheckConstraints(attr, value) ==
    CASE attr.cls = "EAVString" -> EAVString_check_constraints(attr, value)
      [] attr.cls = "EAVInteger" -> EAVInteger_check_constraints(attr, value)
      [] attr.cls = "EAVFloat" -> EAVFloat_check_constraints(attr, value)
      [] attr.cls = "EAVDecimal" -> EAVDecimal_check_constraints(attr, value)
      [] OTHER -> Return(None)

RECURSIVE JoinReprs(_)
JoinReprs(items) == IF items = <<>> THEN ""
                    ELSE IF Len(items) = 1 THEN Repr(items[1])
                    ELSE Repr(items[1]) \o ", " \o JoinReprs(Tail(items))

\* Mutant: the membership test comes before the constraint check's outcome.
CheckChoices_BeforeConstraints(attr, value, k) ==
    IF attr.choices # None /\ ~PyIn(value, attr.choices.items)
    THEN ValidationError(<<attr.name \o " must be one of: "
                           \o JoinReprs(attr.choices.items) \o ".">>)
    ELSE IF ~k.ok THEN k
    ELSE Return(value)

\* if self.choices is not None and value not in self.choices: raise ...
\* (k is the outcome of _check_constraints)
CheckChoices(attr, value, k) ==
    IF ~k.ok THEN k
    ELSE IF attr.choices # None /\ ~PyIn(value, attr.choices.items)
    THEN ValidationError(<<attr.name \o " must be one of: "
                           \o JoinReprs(attr.choices.items) \o ".">>)
    ELSE Return(value)

\* self._check_constraints(value) on the outcome c of _coerce
CheckCoerced(attr, c) ==
    IF ~c.ok THEN c ELSE CheckChoices(attr, c.v, CheckConstraints(attr, c.v))

\* The present-value path of validate: coerce, check constraints, check choices.
ValidatePresent(attr, value) == CheckCoerced(attr, Coerce(attr, value))

\* Mutant: a required attribute fails on None even when it has a default.
EAVAttribute_validate_RequiredIgnoresDefault(attr, value) ==
    IF value = None
    THEN IF attr.required
         THEN ValidationError(<<attr.name \o " is required.">>)
         ELSE Return(attr.default)
    ELSE ValidatePresent(attr, value)

\* EAVAttribute.validate
EAVAttribute_validate(attr, value) ==
    IF value = None
    THEN IF attr.required /\ attr.default = None
         THEN ValidationError(<<attr.name \o " is required.">>)
         ELSE Return(attr.default)
    ELSE ValidatePresent(attr, value)

\* Mutant: every descriptor serialises with str(), not only EAVDecimal.
to_json_StringifyAll(attr, value) == IF value = None THEN None ELSE PyStr(Str(value))

\* Mutant: EAVDecimal does not override to_json.
to_json_Identity(attr, value) == value

\* Mutant: EAVDecimal serialises the normalised decimal (one trailing zero dropped).
to_json_Normalized(attr, value) ==
    IF attr.cls # "EAVDecimal" THEN value
    ELSE IF value = None THEN None
    ELSE IF value.t = "dec" /\ value.k = "fin" /\ value.exp < 0 /\ value.coef % 10 = 0
    THEN PyStr(Str(Dec(value.sign, value.coef \div 10, value.exp + 1)))
    ELSE PyStr(Str(value))

\* EAVAttribute.to_json / EAVDecimal.to_json
to_json(attr, value) ==
    IF attr.cls = "EAVDecimal"
    THEN IF value = None THEN None ELSE PyStr(Str(value))
    ELSE value

\* try: return Decimal(str(value)) / except InvalidOperation: return self.default
DecimalOrDefault(attr, d) == IF d.ok THEN Return(d.v) ELSE Return(attr.default)

\* EAVDecimal.from_json
EAVDecimal_from_json(attr, value) ==
    IF value = None THEN Return(attr.default)
    ELSE DecimalOrDefault(attr, DecimalFromChars(Str(value)))

\* EAVAttribute.from_json / EAVDecimal.from_json
from_json(attr, value) ==
    IF attr.cls = "EAVDecimal" THEN EAVDecimal_from_json(attr, value)
    ELSE IF value # None THEN Coerce(attr, value)
    ELSE Return(attr.default)

(***************************************************************************)
(* Ordered dicts (class namespaces, _eav_attributes) are sequences of      *)
(* <<key, value>> pairs with distinct keys, in insertion order.            *)
(***************************************************************************)
OdKeys(od) == {od[i][1] : i \in 1..Len(od)}

OdGet(od, key) == od[CHOOSE i \in 1..Len(od) : od[i][1] = key][2]

\* od[key] = val: replaces in place, or appends a new key.
OdSet(od, key, val) ==
    IF key \in OdKeys(od)
    THEN [i \in 1..Len(od) |-> IF od[i][1] = key THEN <<key, val>> ELSE od[i]]
    ELSE Append(od, <<key, val>>)

RECURSIVE OdUpdate(_, _)
OdUpdate(od, other) ==
    IF other = <<>> THEN od
    ELSE OdUpdate(OdSet(od, other[1][1], other[1][2]), Tail(other))

(***************************************************************************)
(* EAVSchemaMeta.__new__.  hp is the heap of descriptor objects (object id *)
(* -> descriptor), cl the classes defined so far, bases a sequence of      *)
(* class names and namespace the class body, an ordered dict key -> object *)
(* id.  The result is the heap after "value.name = key" and the merged     *)
(* attribute set.                                                          *)
(***************************************************************************)
RECURSIVE InheritedAttrs(_, _)
RECURSIVE InheritedAttrs_FirstParentWins(_, _)
\* Mutant: the bases are folded from the last to the first.
InheritedAttrs_FirstParentWins(cl, bases) ==
    IF bases = <<>> THEN <<>>
    ELSE OdUpdate(InheritedAttrs_FirstParentWins(cl, Tail(bases)), cl[bases[1]].attrs)

InheritedAttrs(cl, bases) ==
    IF bases = <<>> THEN <<>>
    ELSE OdUpdate(InheritedAttrs(cl, SubSeq(bases, 1, Len(bases) - 1)),
                  cl[bases[Len(bases)]].attrs)

RECURSIVE BindNames(_, _)
BindNames(hp, namespace) ==
    IF namespace = <<>> THEN hp
    ELSE BindNames([hp EXCEPT ![namespace[1][2]].name = namespace[1][1]], Tail(namespace))

EAVSchemaMeta_new(hp, cl, bases, namespace) ==
    [heap |-> BindNames(hp, namespace),
     attrs |-> OdUpdate(InheritedAttrs(cl, bases), namespace)]

\* class EAVSchema(metaclass=EAVSchemaMeta): no attributes, the no-op hook.
\* bases are the names of the direct parents and dict the identity of the
\* dict object stored as _eav_attributes.
BaseClasses ==
    [c \in {"EAVSchema"} |-> [attrs |-> <<>>, hook |-> "base", bases |-> <<>>, dict |-> 1]]

(***************************************************************************)
(* validate_cross hooks.  "base" is EAVSchema.validate_cross (does         *)
(* nothing); "example" is the hook of the module docstring, over the keys  *)
(* "a" and "b": if data.get("a") and not data.get("b"): raise              *)
(* ValidationError({"b": ["Required."]}).                                  *)
(***************************************************************************)
DictGet(m, key) == IF key \in DOMAIN m THEN m[key] ELSE None

validate_cross(hook, d) ==
    IF hook = "example" /\ Truthy(DictGet(d, "a")) /\ ~Truthy(DictGet(d, "b"))
    THEN ValidationErrorDict([k \in {"b"} |-> <<"Required.">>])
    ELSE Return(None)

(***************************************************************************)
(* The pieces of EAVSchema.validate.                                       *)
(***************************************************************************)
\* errors.setdefault(field, []).extend(msgs)
ErrExtend(errs, field, msgs) ==
    [k \in DOMAIN errs \cup {field} |->
        IF k = field THEN (IF k \in DOMAIN errs THEN errs[k] ELSE <<>>) \o msgs
        ELSE errs[k]]

RECURSIVE ErrMerge(_, _, _)
ErrMerge(errs, m, keys) ==
    IF keys = {} THEN errs
    ELSE LET k == CHOOSE x \in keys : TRUE
         IN ErrMerge(ErrExtend(errs, k, m[k]), m, keys \ {k})

\* unknown = set(data) - known_keys, and one error per unknown key.
UnknownKeyErrors(attrs, d) ==
    [key \in DOMAIN d \ OdKeys(attrs) |-> <<"Unknown config key: " \o key \o ".">>]

\* The except clause for one attribute: merge the error into errors.
CollectError(errs, attr_name, exc) ==
    IF exc.dict # None THEN ErrMerge(errs, exc.dict.m, DOMAIN exc.dict.m)
    ELSE ErrExtend(errs, attr_name, exc.msgs)

\* Mutant: the test is "if cleaned_value", which drops falsy values.
StoreCleaned_SkipFalsy(cl, attr_name, attr, cleaned_value) ==
    IF Truthy(cleaned_value)
    THEN [k \in DOMAIN cl \cup {attr_name} |->
            IF k = attr_name THEN to_json(attr, cleaned_value) ELSE cl[k]]
    ELSE cl

\* Mutant: the "if cleaned_value is not None" test is missing.
StoreCleaned_KeepNone(cl, attr_name, attr, cleaned_value) ==
    [k \in DOMAIN cl \cup {attr_name} |->
        IF k = attr_name THEN to_json(attr, cleaned_value) ELSE cl[k]]

\* cleaned[attr_name] = attr.to_json(cleaned_value) unless the value is None.
StoreCleaned(cl, attr_name, attr, cleaned_value) ==
    IF cleaned_value # None
    THEN [k \in DOMAIN cl \cup {attr_name} |->
            IF k = attr_name THEN to_json(attr, cleaned_value) ELSE cl[k]]
    ELSE cl

(***************************************************************************)
(* One call of EAVSchema.validate, as a record of its local variables and  *)
(* position.  arg is the caller's argument, data the local after           *)
(* "if data is None: data = {}".  validated, crossCalls and crossArg       *)
(* record which descriptors were run and how validate_cross was invoked;   *)
(* prev is the result this call re-validates, if any.                      *)
(***************************************************************************)
NoResult == [ok |-> FALSE, v |-> None, exc |-> "", msgs |-> <<>>, dict |-> None]

EmptyErrors == [k \in {} |-> <<>>]

IdleCall ==
    [pc |-> "idle", cls |-> "", arg |-> None, data |-> None, errors |-> EmptyErrors,
     cleaned |-> EmptyMap, idx |-> 1, result |-> NoResult, validated |-> <<>>,
     crossCalls |-> 0, crossArg |-> None, prev |-> NoResult]

StartCall(c, arg) == [IdleCall EXCEPT !.pc = "enter", !.cls = c, !.arg = arg, !.data = arg]

\* if not isinstance(data, dict): raise ...; then the unknown keys of data
EnterDict(cl, st, d) ==
    IF d.t # "dict"
    THEN [st EXCEPT !.pc = "done",
                    !.result = ValidationErrorDict(
                                  [k \in {"__all__"} |-> <<"Config must be a dict.">>])]
    ELSE [st EXCEPT !.pc = "loop", !.data = d,
                    !.errors = UnknownKeyErrors(cl[st.cls].attrs, d.m)]

\* Mutant: the "if data is None: data = {}" lines are missing.
EnterStep_NoneNotDefaulted(hp, cl, st) == EnterDict(cl, st, st.data)

\* None becomes {}, a non-dict fails at once, unknown keys are recorded.
EnterStep(hp, cl, st) ==
    EnterDict(cl, st, IF st.data = None THEN PyDict(EmptyMap) ELSE st.data)

\* The body of the loop for one attribute, given the outcome r of
\* attr.validate(value).  Only ValidationError is caught; any other
\* exception leaves validate.
AttrOutcome(st, attr_name, attr, r) ==
    IF r.ok
    THEN [st EXCEPT !.validated = Append(@, attr_name), !.idx = @ + 1,
                    !.cleaned = StoreCleaned(@, attr_name, attr, r.v)]
    ELSE IF r.exc = "ValidationError"
    THEN [st EXCEPT !.validated = Append(@, attr_name), !.idx = @ + 1,
                    !.errors = CollectError(@, attr_name, r)]
    ELSE [st EXCEPT !.validated = Append(@, attr_name), !.idx = @ + 1,
                    !.pc = "done", !.result = Raise(r.exc)]

\* Mutant: a key that is present with the value None is stored as None
\* without being validated.
AttrAt_PresentNoneSkipped(st, attr_name, attr) ==
    AttrOutcome(st, attr_name, attr,
                IF attr_name \in DOMAIN st.data.m /\ st.data.m[attr_name] = None
                THEN Return(None)
                ELSE EAVAttribute_validate(attr, DictGet(st.data.m, attr_name)))

\* value = data.get(attr_name); attr.validate(value)
AttrAt(st, attr_name, attr) ==
    AttrOutcome(st, attr_name, attr,
                EAVAttribute_validate(attr, DictGet(st.data.m, attr_name)))

\* One iteration of "for attr_name, attr in cls._eav_attributes.items()".
AttrStep(hp, cl, st) ==
    AttrAt(st, cl[st.cls].attrs[st.idx][1], hp[cl[st.cls].attrs[st.idx][2]])

\* Mutant: the collected errors do not stop the call before validate_cross.
CheckStep_AlwaysCross(hp, cl, st) == [st EXCEPT !.pc = "cross"]

\* if errors: raise ValidationError(errors)
CheckStep(hp, cl, st) ==
    IF DOMAIN st.errors # {}
    THEN [st EXCEPT !.pc = "done", !.result = ValidationErrorDict(st.errors)]
    ELSE [st EXCEPT !.pc = "cross"]

\* The outcome r of cls.validate_cross(cleaned): its error, or return cleaned.
CrossOutcome(st, r) ==
    [st EXCEPT !.pc = "done", !.crossCalls = @ + 1, !.crossArg = PyDict(st.cleaned),
               !.result = IF r.ok THEN Return(PyDict(st.cleaned)) ELSE r]

\* cls.validate_cross(cleaned); return cleaned
CrossStep(hp, cl, st) == CrossOutcome(st, validate_cross(cl[st.cls].hook, st.cleaned))

InLoop(cl, st) == st.pc = "loop" /\ st.idx <= Len(cl[st.cls].attrs)

AtCheck(cl, st) == st.pc = "loop" /\ st.idx > Len(cl[st.cls].attrs)

Step(hp, cl, st) ==
    CASE st.pc = "enter" -> EnterStep(hp, cl, st)
      [] InLoop(cl, st) -> AttrStep(hp, cl, st)
      [] AtCheck(cl, st) -> CheckStep(hp, cl, st)
      [] OTHER -> CrossStep(hp, cl, st)

RECURSIVE Run(_, _, _)
Run(hp, cl, st) == IF st.pc = "done" THEN st ELSE Run(hp, cl, Step(hp, cl, st))

\* EAVSchema.validate as a function of the schema and the argument: what
\* the call returns or raises.
EAVSchema_validate(hp, cl, c, arg) == Run(hp, cl, StartCall(c, arg)).result

(***************************************************************************)
(* EAVSchema.apply_defaults.  The outcome comes with the caller's mapping  *)
(* as it is after the call (data) and with whether the mapping returned is *)
(* a new dict object (fresh).                                              *)
(***************************************************************************)
\* if attr_name not in result and attr.default is not None: result[...] = ...
RECURSIVE FillDefaults(_, _, _)
FillDefaults(hp, attrs, result) ==
    IF attrs = <<>> THEN result
    ELSE IF attrs[1][1] \notin DOMAIN result /\ hp[attrs[1][2]].default # None
    THEN FillDefaults(hp, Tail(attrs),
                      [k \in DOMAIN result \cup {attrs[1][1]} |->
                          IF k = attrs[1][1]
                          THEN to_json(hp[attrs[1][2]], hp[attrs[1][2]].default)
                          ELSE result[k]])
    ELSE FillDefaults(hp, Tail(attrs), result)

\* Mutant: the defaults are filled into the caller's mapping itself.
apply_defaults_InPlace(hp, cl, c, data) ==
    IF data = None
    THEN [out |-> Return(PyDict(FillDefaults(hp, cl[c].attrs, EmptyMap))),
          data |-> data, fresh |-> TRUE]
    ELSE IF data.t = "dict"
    THEN [out |-> Return(PyDict(FillDefaults(hp, cl[c].attrs, data.m))),
          data |-> PyDict(FillDefaults(hp, cl[c].attrs, data.m)), fresh |-> FALSE]
    ELSE [out |-> Raise("TypeError"), data |-> data, fresh |-> FALSE]

\* dict(data) copies a dict, is {} for an empty sequence or string, and
\* raises for the other values (the lists of the model are empty).
apply_defaults(hp, cl, c, data) ==
    IF data = None
    THEN [out |-> Return(PyDict(FillDefaults(hp, cl[c].attrs, EmptyMap))),
          data |-> data, fresh |-> TRUE]
    ELSE IF data.t = "dict"
    THEN [out |-> Return(PyDict(FillDefaults(hp, cl[c].attrs, data.m))),
          data |-> data, fresh |-> TRUE]
    ELSE IF data.t = "list" \/ data = PyStr(<<>>)
    THEN [out |-> Return(PyDict(FillDefaults(hp, cl[c].attrs, EmptyMap))),
          data |-> data, fresh |-> TRUE]
    ELSE IF data.t = "str"
    THEN [out |-> Raise("ValueError"), data |-> data, fresh |-> FALSE]
    ELSE [out |-> Raise("TypeError"), data |-> data, fresh |-> FALSE]

(***************************************************************************)
(* Bounds and the finite sets the inputs are drawn from.                   *)
(***************************************************************************)
\* validate calls in one behaviour: a first call and re-validations of its result
MaxCalls == 2

\* largest exponent magnitude of the generated decimals
MaxExp == 2

Ab == PyStr(<<"a", "b">>)

Abc == PyStr(<<"a", "b", "c">>)

Str150 == PyStr(<<"1", ".", "5", "0">>)

\* Raw values a caller may put under a key of the input mapping.
StrNaN == PyStr(<<"N", "a", "N">>)

SchemaValues ==
    {None, PyBool(TRUE), PyInt(0), PyInt(7), PyFloat(3), FloatNaN, Ab, Abc, Str150,
     Dec(0, 6500, -5), StrNaN}

\* Descriptors as written in a class body (name not yet bound).
SchemaDescs ==
    {EAVString(None, TRUE, None, None),
     EAVString(PyInt(2), FALSE, None, None),
     EAVString(PyInt(2), FALSE, Abc, None),
     EAVBoolean(FALSE, PyBool(FALSE), None),
     EAVInteger(PyInt(0), PyInt(5), TRUE, None, None),
     EAVInteger(None, None, TRUE, PyInt(1), None),
     EAVInteger(None, None, FALSE, PyInt(0), None),
     EAVString(None, FALSE, PyStr(<<>>), None),
     EAVFloat(None, None, FALSE, None, None),
     EAVDecimal(None, None, None, None, FALSE, Dec(0, 5, -2), None),
     EAVDecimal(PyInt(5), PyInt(2), PyInt(0), None, TRUE, None, None)}

\* Class bodies: no attribute, "a", or "a" then "b".
Namespaces ==
    {<<>>} \cup {<<<<"a", d>>>> : d \in SchemaDescs}
           \cup {<<<<"a", d>>, <<"b", e>>>> : d \in SchemaDescs, e \in SchemaDescs}

Hooks == {"base", "example"}

InputKeys == {"a", "b", "z"}

\* Input mappings: any subset of the keys; "a" and "b" carry any raw value.
Mappings ==
    UNION {[ks -> SchemaValues] : ks \in SUBSET {"a", "b"}}
    \cup UNION {{[k \in ks \cup {"z"} |-> IF k = "z" THEN Ab ELSE m[k]] : m \in [ks -> SchemaValues]}
                    : ks \in SUBSET {"a", "b"}}

Arguments == {PyDict(m) : m \in Mappings} \cup {None, Ab, PyList(<<>>)}

\* No EAVField constructed yet; no validate call and no deconstruct on it.
NoChecked == [value |-> None, instance |-> None, out |-> NoResult, schemaCalls |-> 0, cls |-> ""]

NoKwargs == [t |-> "none"]

NoField ==
    [pc |-> "new", schema |-> None, schema_map |-> None, schema_key_field |-> None,
     exc |-> "", given |-> NoKwargs, checked |-> NoChecked, kwargs |-> NoKwargs,
     rebuilt |-> FALSE, origin |-> NoKwargs, emitted |-> NoKwargs]

VARIABLES heap, classes, call, calls, desc, raw, conv, got, op, loaded, applied, threads, field

vars == <<heap, classes, call, calls, desc, raw, conv, got, op, loaded, applied, threads, field>>

NoConv == [pc |-> "off", out |-> NoResult, json |-> None, back |-> NoResult]

\* No mapping returned by get_attributes yet.
NoGot == [cls |-> "", dict |-> 0, attrs |-> <<>>]

\* The operation performed last on the classes, with the heap and the
\* classes as they were just before it; edits counts the direct changes
\* made to dict objects.
NoOp ==
    [kind |-> "none", cls |-> "", edits |-> 0, ns |-> <<>>,
     heap |-> <<>>, classes |-> BaseClasses]

\* from_json not called yet on the raw value.
NotLoaded == [pc |-> "new", back |-> NoResult]

\* apply_defaults not called yet.
NotApplied == [pc |-> "new", arg |-> None, data |-> None, out |-> NoResult, fresh |-> FALSE]

\* The class "Config" as the metaclass builds it from a class body.
ClassBuilt(m, hook) ==
    [heap |-> m.heap,
     classes |-> [c \in {"EAVSchema", "Config"} |->
                     IF c = "Config"
                     THEN [attrs |-> m.attrs, hook |-> hook,
                           bases |-> <<"EAVSchema">>, dict |-> 2]
                     ELSE BaseClasses[c]]]

DefineConfig(ns, hook) ==
    ClassBuilt(EAVSchemaMeta_new([i \in 1..Len(ns) |-> ns[i][2]], BaseClasses,
                                 <<"EAVSchema">>, [i \in 1..Len(ns) |-> <<ns[i][1], i>>]),
               hook)

Init ==
    /\ \E c \in {DefineConfig(ns, hook) : ns \in Namespaces, hook \in Hooks} :
          /\ heap = c.heap
          /\ classes = c.classes
    /\ call = IdleCall
    /\ calls = 0
    /\ desc = None
    /\ raw = None
    /\ conv = NoConv
    /\ got = NoGot
    /\ op = NoOp
    /\ loaded = NotLoaded
    /\ applied = NotApplied
    /\ field = NoField
    /\ threads = <<>>

\* A caller invokes Config.validate(arg).
Call ==
    /\ call.pc = "idle"
    /\ calls < MaxCalls
    /\ \E arg \in Arguments : call' = StartCall("Config", arg)
    /\ calls' = calls + 1
    /\ UNCHANGED <<heap, classes, desc, raw, conv, got, op, loaded, applied, threads, field>>

\* The caller validates the mapping a successful call returned.
Revalidate ==
    /\ call.pc = "done"
    /\ call.result.ok
    /\ calls < MaxCalls
    /\ call' = [StartCall("Config", call.result.v) EXCEPT !.prev = call.result]
    /\ calls' = calls + 1
    /\ UNCHANGED <<heap, classes, desc, raw, conv, got, op, loaded, applied, threads, field>>

Enter ==
    /\ call.pc = "enter"
    /\ call' = EnterStep(heap, classes, call)
    /\ UNCHANGED <<heap, classes, calls, desc, raw, conv, got, op, loaded, applied, threads, field>>

ValidateAttr ==
    /\ InLoop(classes, call)
    /\ call' = AttrStep(heap, classes, call)
    /\ UNCHANGED <<heap, classes, calls, desc, raw, conv, got, op, loaded, applied, threads, field>>

CheckErrors ==
    /\ AtCheck(classes, call)
    /\ call' = CheckStep(heap, classes, call)
    /\ UNCHANGED <<heap, classes, calls, desc, raw, conv, got, op, loaded, applied, threads, field>>

Cross ==
    /\ call.pc = "cross"
    /\ call' = CrossStep(heap, classes, call)
    /\ UNCHANGED <<heap, classes, calls, desc, raw, conv, got, op, loaded, applied, threads, field>>

(***************************************************************************)
(* A single descriptor applied to a single raw value: validate, then       *)
(* to_json of what it returned, then from_json of that.                    *)
(***************************************************************************)
\* Decimals sign * coef * 10^exp over a few coefficients and all small exponents.
Decimals ==
    {Dec(sg, c, e) : sg \in {0, 1}, c \in {0, 5, 15, 6500, 99999}, e \in (-MaxExp)..MaxExp}
    \cup {Dec(0, 6500, -5), Dec(0, 1000000, -2), DecNaN, DecInf(0), DecInf(1)}
    \cup {Dec(0, 105, -1), Dec(0, 1050, -2), Dec(0, 10501, -3), Dec(0, 1000, 0), Dec(0, 1, 3)}

AttrValues ==
    {None, PyBool(TRUE), PyBool(FALSE), PyInt(0), PyInt(1), PyInt(7), PyInt(-1),
     PyFloat(1), PyFloat(3), PyFloat(4), FloatNaN, FloatInf,
     PyStr(<<>>), Ab, Abc, Str150, StrNaN, PyStr(<<" ", "1", ".", "5", " ">>),
     PyStr(<<"1", "E", "+", "3">>), PyStr(<<"1", "_", "0">>), PyList(<<>>)}
    \cup Decimals

AbChoices == PyList(<<Ab, PyStr(<<>>)>>)

AttrDescs ==
    SchemaDescs \cup
    {EAVString(None, FALSE, Ab, AbChoices),
     EAVString(None, TRUE, Abc, AbChoices),
     EAVString(None, TRUE, PyInt(7), None),
     EAVBoolean(TRUE, None, None),
     EAVBoolean(TRUE, PyBool(TRUE), PyList(<<PyBool(TRUE)>>)),
     EAVInteger(None, None, TRUE, None, PyList(<<PyInt(1), PyInt(7)>>)),
     EAVInteger(None, None, FALSE, PyInt(0), None),
     EAVInteger(None, None, TRUE, PyBool(TRUE), None),
     EAVFloat(PyFloat(1), PyFloat(3), TRUE, None, None),
     EAVFloat(None, None, TRUE, PyInt(1), None),
     EAVDecimal(None, None, None, None, TRUE, None, None),
     EAVDecimal(None, PyInt(2), None, None, TRUE, None, None),
     EAVDecimal(PyInt(5), None, None, None, FALSE, None, None),
     EAVDecimal(PyInt(5), PyInt(2), None, None, TRUE, None, None),
     EAVDecimal(PyInt(3), PyInt(1), None, None, TRUE, None, None),
     EAVDecimal(None, None, PyInt(0), PyInt(1), TRUE, PyFloat(1), None),
     EAVDecimal(None, None, None, None, TRUE, Str150, None),
     EAVDecimal(None, None, None, None, TRUE, None, PyList(<<Dec(0, 15, -1), Dec(0, 5, 0)>>)),
     EAVInteger(PyInt(0), PyInt(5), TRUE, None, PyList(<<PyInt(1), PyInt(7)>>)),
     EAVString(PyInt(2), TRUE, None, PyList(<<Ab, Abc>>)),
     EAVFloat(None, None, TRUE, None, PyList(<<PyInt(1), PyFloat(3)>>)),
     EAVDecimal(None, None, PyInt(0), PyInt(7), TRUE, None, None)}

\* The descriptor as bound by a class body "a = <descriptor>".
Bound(d) == [d EXCEPT !.name = "a"]

InitAttr ==
    /\ heap = <<>>
    /\ classes = BaseClasses
    /\ call = IdleCall
    /\ calls = 0
    /\ desc \in {Bound(d) : d \in AttrDescs}
    /\ raw \in AttrValues
    /\ conv = [NoConv EXCEPT !.pc = "new"]
    /\ got = NoGot
    /\ op = NoOp
    /\ loaded = NotLoaded
    /\ applied = NotApplied
    /\ field = NoField
    /\ threads = <<>>

AttrValidate ==
    /\ conv.pc = "new"
    /\ conv' = [conv EXCEPT !.pc = "validated", !.out = EAVAttribute_validate(desc, raw)]
    /\ UNCHANGED <<heap, classes, call, calls, desc, raw, got, op, loaded, applied, threads, field>>

ToJson ==
    /\ conv.pc = "validated"
    /\ conv.out.ok
    /\ conv' = [conv EXCEPT !.pc = "json", !.json = to_json(desc, conv.out.v)]
    /\ UNCHANGED <<heap, classes, call, calls, desc, raw, got, op, loaded, applied, threads, field>>

FromJson ==
    /\ conv.pc = "json"
    /\ conv' = [conv EXCEPT !.pc = "restored", !.back = from_json(desc, conv.json)]
    /\ UNCHANGED <<heap, classes, call, calls, desc, raw, got, op, loaded, applied, threads, field>>

\* from_json applied to the raw value, as when a stored value is read back.
Load ==
    /\ loaded.pc = "new"
    /\ conv.pc \in {"new", "restored"}
    /\ loaded' = [pc |-> "loaded", back |-> from_json(desc, raw)]
    /\ UNCHANGED <<heap, classes, call, calls, desc, raw, conv, got, op, applied, threads, field>>

NextAttr == AttrValidate \/ ToJson \/ FromJson \/ Load

SpecAttr == InitAttr /\ [][NextAttr]_vars

Next == Call \/ Revalidate \/ Enter \/ ValidateAttr \/ CheckErrors \/ Cross

Spec == Init /\ [][Next]_vars

(***************************************************************************)
(* Schema definitions: classes defined one after the other, each from a    *)
(* class body, and the dict objects holding merged attribute sets (the     *)
(* _eav_attributes of a class, the mapping get_attributes returns), which  *)
(* a caller may change.  A dict object is known by its identity; every     *)
(* holder of the same identity sees a change made through any of them.     *)
(***************************************************************************)
\* direct changes a caller makes to dict objects in one behaviour
MaxEdits == 1

\* Names of the classes defined, in the order of definition.
ClassNames == <<"A", "B">>

MetaKeys == {"a", "b"}

\* Descriptors a class body may construct.
MetaDescs ==
    {EAVString(PyInt(2), TRUE, None, None),
     EAVInteger(PyInt(0), PyInt(5), FALSE, PyInt(1), None)}

\* What a class body assigns to a key: a descriptor it constructs (id = 0)
\* or a reference to an existing descriptor object.
Srcs(hp) ==
    {[id |-> 0, d |-> d] : d \in MetaDescs} \cup {[id |-> i, d |-> None] : i \in 1..Len(hp)}

Bodies(hp) ==
    {<<>>} \cup {<<<<k, x>>>> : k \in MetaKeys, x \in Srcs(hp)}
           \cup {<<<<"a", x>>, <<"b", y>>>> : x \in Srcs(hp), y \in Srcs(hp)}

\* Executing a class body: the constructed descriptors join the heap and
\* the namespace maps each key to its object.
RECURSIVE EvalBody(_, _, _)
EvalBody(hp, ns, body) ==
    IF body = <<>> THEN [heap |-> hp, ns |-> ns]
    ELSE IF body[1][2].id = 0
    THEN EvalBody(Append(hp, body[1][2].d), Append(ns, <<body[1][1], Len(hp) + 1>>),
                  Tail(body))
    ELSE EvalBody(hp, Append(ns, <<body[1][1], body[1][2].id>>), Tail(body))

\* The identity of a dict object created now ("attrs = {}", "dict(...)").
NewDictId(cl, g) ==
    1 + (CHOOSE n \in {cl[c].dict : c \in DOMAIN cl} \cup {g.dict} :
            \A m \in {cl[c].dict : c \in DOMAIN cl} \cup {g.dict} : m <= n)

\* The class object: namespace["_eav_attributes"] = attrs, in a new dict.
\* validate_cross is inherited from the first base.
ClassCreated(cl, name, bases, m, id) ==
    [heap |-> m.heap,
     classes |-> [c \in DOMAIN cl \cup {name} |->
                     IF c = name
                     THEN [attrs |-> m.attrs, hook |-> cl[bases[1]].hook,
                           bases |-> bases, dict |-> id]
                     ELSE cl[c]]]

\* class <name>(<bases>): <body>
DefineClass(cl, g, name, bases, ev) ==
    ClassCreated(cl, name, bases, EAVSchemaMeta_new(ev.heap, cl, bases, ev.ns),
                 NewDictId(cl, g))

\* del od[key]
OdDel(od, key) == SelectSeq(od, LAMBDA e : e[1] # key)

\* d[key] = obj on the dict object of identity id: all its holders see it.
DictSetItem(cl, g, id, key, obj) ==
    [classes |-> [c \in DOMAIN cl |->
                     IF cl[c].dict = id THEN [cl[c] EXCEPT !.attrs = OdSet(@, key, obj)]
                     ELSE cl[c]],
     got |-> IF g.dict = id THEN [g EXCEPT !.attrs = OdSet(@, key, obj)] ELSE g]

\* del d[key] on the dict object of identity id.
DictDelItem(cl, g, id, key) ==
    [classes |-> [c \in DOMAIN cl |->
                     IF cl[c].dict = id THEN [cl[c] EXCEPT !.attrs = OdDel(@, key)]
                     ELSE cl[c]],
     got |-> IF g.dict = id THEN [g EXCEPT !.attrs = OdDel(@, key)] ELSE g]

\* Mutant: get_attributes returns cls._eav_attributes itself.
get_attributes_NoCopy(cl, g, c) == [cls |-> c, dict |-> cl[c].dict, attrs |-> cl[c].attrs]

\* EAVSchema.get_attributes: dict(cls._eav_attributes), a new dict object
\* with the same entries.
get_attributes(cl, g, c) == [cls |-> c, dict |-> NewDictId(cl, g), attrs |-> cl[c].attrs]

UserClasses(cl) == DOMAIN cl \ {"EAVSchema"}

InitMeta ==
    /\ heap = <<>>
    /\ classes = BaseClasses
    /\ call = IdleCall
    /\ calls = 0
    /\ desc = None
    /\ raw = None
    /\ conv = NoConv
    /\ got = NoGot
    /\ op = NoOp
    /\ loaded = NotLoaded
    /\ applied = NotApplied
    /\ field = NoField
    /\ threads = <<>>

Snapshot(kind, c, ns, edits) ==
    [kind |-> kind, cls |-> c, edits |-> edits, ns |-> ns, heap |-> heap, classes |-> classes]

\* The next class is defined, with any defined class as its base.
DefineSchema ==
    /\ Cardinality(DOMAIN classes) <= Len(ClassNames)
    /\ \E base \in DOMAIN classes :
          \E ev \in {EvalBody(heap, <<>>, body) : body \in Bodies(heap)} :
             \E c \in {DefineClass(classes, got, ClassNames[Cardinality(DOMAIN classes)],
                                   <<base>>, ev)} :
                /\ heap' = c.heap
                /\ classes' = c.classes
                /\ op' = Snapshot("define", ClassNames[Cardinality(DOMAIN classes)],
                                  ev.ns, op.edits)
    /\ UNCHANGED <<call, calls, desc, raw, conv, got, loaded, applied, threads, field>>

\* A caller assigns an entry of a class's merged set.
SetAttribute ==
    /\ op.edits < MaxEdits
    /\ \E c \in UserClasses(classes), key \in MetaKeys, obj \in 1..Len(heap) :
          \E w \in {DictSetItem(classes, got, classes[c].dict, key, obj)} :
             /\ classes' = w.classes
             /\ got' = w.got
             /\ op' = Snapshot("setitem", c, <<>>, op.edits + 1)
    /\ UNCHANGED <<heap, call, calls, desc, raw, conv, loaded, applied, threads, field>>

\* A caller deletes an entry of a class's merged set.
DelAttribute ==
    /\ op.edits < MaxEdits
    /\ \E c \in UserClasses(classes) :
          \E key \in OdKeys(classes[c].attrs) :
             \E w \in {DictDelItem(classes, got, classes[c].dict, key)} :
                /\ classes' = w.classes
                /\ got' = w.got
                /\ op' = Snapshot("delitem", c, <<>>, op.edits + 1)
    /\ UNCHANGED <<heap, call, calls, desc, raw, conv, loaded, applied, threads, field>>

\* A caller takes cls.get_attributes().
GetAttributes ==
    /\ got = NoGot
    /\ \E c \in UserClasses(classes) : got' = get_attributes(classes, got, c)
    /\ op' = Snapshot("get", got'.cls, <<>>, op.edits)
    /\ UNCHANGED <<heap, classes, call, calls, desc, raw, conv, loaded, applied, threads, field>>

\* The caller adds or replaces an entry of the mapping get_attributes returned.
SetReturned ==
    /\ got # NoGot
    /\ op.edits < MaxEdits
    /\ \E key \in MetaKeys, obj \in 1..Len(heap) :
          \E w \in {DictSetItem(classes, got, got.dict, key, obj)} :
             /\ classes' = w.classes
             /\ got' = w.got
    /\ op' = Snapshot("gotset", got.cls, <<>>, op.edits + 1)
    /\ UNCHANGED <<heap, call, calls, desc, raw, conv, loaded, applied, threads, field>>

\* The caller removes an entry of the mapping get_attributes returned.
DelReturned ==
    /\ got # NoGot
    /\ op.edits < MaxEdits
    /\ \E key \in OdKeys(got.attrs) :
          \E w \in {DictDelItem(classes, got, got.dict, key)} :
             /\ classes' = w.classes
             /\ got' = w.got
    /\ op' = Snapshot("gotdel", got.cls, <<>>, op.edits + 1)
    /\ UNCHANGED <<heap, call, calls, desc, raw, conv, loaded, applied, threads, field>>

NextMeta ==
    DefineSchema \/ SetAttribute \/ DelAttribute \/ GetAttributes \/ SetReturned \/ DelReturned

SpecMeta == InitMeta /\ [][NextMeta]_vars

(***************************************************************************)
(* Schemas with several direct parents.                                    *)
(***************************************************************************)
\* Names of the classes defined, in the order of definition.
FoldNames == <<"P", "Q", "R">>

\* Class bodies that construct their descriptors.
FoldBodies ==
    {<<>>} \cup {<<<<k, [id |-> 0, d |-> d]>>>> : k \in MetaKeys, d \in MetaDescs}
           \cup {<<<<"a", [id |-> 0, d |-> x]>>, <<"b", [id |-> 0, d |-> y]>>>> :
                    x \in MetaDescs, y \in MetaDescs}

\* x is y or a parent, grandparent, ... of y.
RECURSIVE IsAncestor(_, _, _)
IsAncestor(cl, x, y) ==
    x = y \/ \E i \in 1..Len(cl[y].bases) : IsAncestor(cl, x, cl[y].bases[i])

\* The base lists Python accepts: one class, or two classes of which the
\* first is not an ancestor of the second (a consistent resolution order).
FoldBases(cl) ==
    {<<b>> : b \in DOMAIN cl}
    \cup {p \in {<<x, y>> : x \in DOMAIN cl, y \in DOMAIN cl} : ~IsAncestor(cl, p[1], p[2])}

\* class <name>(<base>, ...): <body>
DefineFold ==
    /\ Cardinality(DOMAIN classes) <= Len(FoldNames)
    /\ \E bases \in FoldBases(classes) :
          \E ev \in {EvalBody(heap, <<>>, body) : body \in FoldBodies} :
             \E c \in {DefineClass(classes, got, FoldNames[Cardinality(DOMAIN classes)],
                                   bases, ev)} :
                /\ heap' = c.heap
                /\ classes' = c.classes
                /\ op' = Snapshot("define", FoldNames[Cardinality(DOMAIN classes)],
                                  ev.ns, op.edits)
    /\ UNCHANGED <<call, calls, desc, raw, conv, got, loaded, applied, threads, field>>

SpecFold == InitMeta /\ [][DefineFold]_vars

(***************************************************************************)
(* apply_defaults called on the class Config.                              *)
(***************************************************************************)
Applied(arg, r) == [pc |-> "done", arg |-> arg, data |-> r.data, out |-> r.out, fresh |-> r.fresh]

ApplyDefaults ==
    /\ applied.pc = "new"
    /\ \E arg \in Arguments :
          applied' = Applied(arg, apply_defaults(heap, classes, "Config", arg))
    /\ UNCHANGED <<heap, classes, call, calls, desc, raw, conv, got, op, loaded, threads, field>>

SpecDefaults == Init /\ [][ApplyDefaults]_vars

(***************************************************************************)
(* Concurrent calls of Config.validate: each thread runs one call, and the *)
(* steps of the calls interleave.  A step is given the shared state (the   *)
(* descriptors, the classes) and every call's locals, and returns them.    *)
(***************************************************************************)
Threads == {1, 2}

Seven == PyInt(7)

ConcMappings ==
    {EmptyMap, [k \in {"a"} |-> Ab], [k \in {"a"} |-> Seven], [k \in {"z"} |-> Ab],
     [k \in {"a", "b"} |-> IF k = "a" THEN Ab ELSE Seven]}

ConcArguments == {PyDict(m) : m \in ConcMappings} \cup {None, Ab}

\* Mutant: cleaned is an attribute of the class, shared by the calls.
ThreadStep_SharedCleaned(hp, cl, ths, t) ==
    [heap |-> hp, classes |-> cl,
     threads |-> [u \in DOMAIN ths |->
                     IF u = t THEN Step(hp, cl, ths[t])
                     ELSE [ths[u] EXCEPT !.cleaned = Step(hp, cl, ths[t]).cleaned]]]

\* One step of the call of thread t: it assigns its own locals only.
ThreadStep(hp, cl, ths, t) ==
    [heap |-> hp, classes |-> cl, threads |-> [ths EXCEPT ![t] = Step(hp, cl, ths[t])]]

InitConc ==
    /\ \E c \in {DefineConfig(ns, hook) : ns \in Namespaces, hook \in Hooks} :
          /\ heap = c.heap
          /\ classes = c.classes
          /\ op = [NoOp EXCEPT !.kind = "define", !.cls = "Config",
                               !.heap = c.heap, !.classes = c.classes]
    /\ call = IdleCall
    /\ calls = 0
    /\ desc = None
    /\ raw = None
    /\ conv = NoConv
    /\ got = NoGot
    /\ loaded = NotLoaded
    /\ applied = NotApplied
    /\ field = NoField
    /\ threads = [t \in Threads |-> IdleCall]

\* Thread t calls Config.validate(arg).
ThreadCall ==
    /\ \E t \in DOMAIN threads :
          /\ threads[t].pc = "idle"
          /\ \E arg \in ConcArguments :
                threads' = [threads EXCEPT ![t] = StartCall("Config", arg)]
    /\ UNCHANGED <<heap, classes, call, calls, desc, raw, conv, got, op, loaded, applied, field>>

\* The call of thread t takes its next step.
ThreadAdvance ==
    /\ \E t \in DOMAIN threads :
          /\ threads[t].pc \notin {"idle", "done"}
          /\ \E r \in {ThreadStep(heap, classes, threads, t)} :
                /\ heap' = r.heap
                /\ classes' = r.classes
                /\ threads' = r.threads
    /\ UNCHANGED <<call, calls, desc, raw, conv, got, op, loaded, applied, field>>

NextConc == ThreadCall \/ ThreadAdvance

SpecConc == InitConc /\ [][NextConc]_vars

(***************************************************************************)
(* EAVField (fields.py): schema references, construction, validation and   *)
(* deconstruction.                                                         *)
(***************************************************************************)
\* A schema reference is a class object or a dotted path string.
ClassRef(c) == [t |-> "class", c |-> c]

\* A string used as a mapping key or an attribute name, written as the keys
\* of a mapping are.
Key(k) == [t |-> "key", k |-> k]

\* The test module: _SchemaA, _SchemaB at module level, and a schema class
\* defined inside another scope (OptionalSchema), whose __qualname__ has the
\* enclosing scope's name and a dot before its own.
ModuleName == <<"m">>

Qualname == [c \in {"A", "B", "I"} |-> IF c = "I" THEN <<"O", ".", "I">> ELSE <<c>>]

\* sys.modules and what import finds: the names bound in each module.
Modules ==
    [mod \in {ModuleName} |->
        [n \in {<<"A">>, <<"B">>, <<"O">>} |->
            IF n = <<"O">> THEN [t |-> "object"] ELSE ClassRef(n[1])]]

\* class _SchemaA(EAVSchema): count = EAVInteger(min_value=0)
\* class _SchemaB(EAVSchema): rate = EAVDecimal(min_value=0, max_value=1)
\* class OptionalSchema(EAVSchema): note = EAVString(required=False)
SchemaA ==
    DefineClass(BaseClasses, NoGot, "A", <<"EAVSchema">>,
                EvalBody(<<>>, <<>>,
                         <<<<"count", [id |-> 0,
                                       d |-> EAVInteger(PyInt(0), None, TRUE, None, None)]>>>>))

SchemaB ==
    DefineClass(SchemaA.classes, NoGot, "B", <<"EAVSchema">>,
                EvalBody(SchemaA.heap, <<>>,
                         <<<<"rate", [id |-> 0,
                                      d |-> EAVDecimal(None, None, PyInt(0), PyInt(1),
                                                       TRUE, None, None)]>>>>))

OptionalSchema ==
    DefineClass(SchemaB.classes, NoGot, "I", <<"EAVSchema">>,
                EvalBody(SchemaB.heap, <<>>,
                         <<<<"note", [id |-> 0, d |-> EAVString(None, FALSE, None, None)]>>>>))

\* The index of the last occurrence of ch in s, 0 if there is none.
RECURSIVE rfind(_, _)
rfind(s, ch) ==
    IF s = <<>> THEN 0
    ELSE IF s[Len(s)] = ch THEN Len(s)
    ELSE rfind(SubSeq(s, 1, Len(s) - 1), ch)

\* str.rpartition(sep): the parts before and after the last sep; ("", "", s)
\* when s has no sep.
rpartition(s, sep) ==
    [head |-> SubSeq(s, 1, rfind(s, sep) - 1), tail |-> SubSeq(s, rfind(s, sep) + 1, Len(s))]

\* importlib.import_module(module_path)
import_module(module_path) ==
    IF module_path \in DOMAIN Modules THEN Return(module_path)
    ELSE IF module_path = <<>> THEN Raise("ValueError")
    ELSE Raise("ModuleNotFoundError")

\* getattr(module, class_name)
GetAttr(module, class_name) ==
    IF ~module.ok THEN module
    ELSE IF class_name \in DOMAIN Modules[module.v] THEN Return(Modules[module.v][class_name])
    ELSE Raise("AttributeError")

ResolveParts(p) == GetAttr(import_module(p.head), p.tail)

\* _resolve_schema_class(ref)
resolve_schema_class(ref) ==
    IF ref.t = "str" THEN ResolveParts(rpartition(ref.s, "."))
    ELSE Return(ref)

\* _schema_to_path(schema)
schema_to_path(schema) ==
    IF schema.t = "str" THEN schema
    ELSE PyStr(ModuleName \o <<".">> \o Qualname[schema.c])

\* bool(x) of a constructor argument: None, "" and an empty mapping are false.
ArgTruthy(x) ==
    CASE x.t = "none" -> FALSE
      [] x.t = "str" -> x.s # <<>>
      [] x.t = "key" -> x.k # ""
      [] x.t = "dict" -> DOMAIN x.m # {}
      [] OTHER -> TRUE

\* EAVField.__init__
EAVField_init(schema, schema_map, schema_key_field) ==
    IF (ArgTruthy(schema) /\ ArgTruthy(schema_map))
       \/ (ArgTruthy(schema_map) /\ ~ArgTruthy(schema_key_field))
    THEN [NoField EXCEPT !.pc = "failed", !.exc = "ValueError",
                         !.given = [schema |-> schema, schema_map |-> schema_map,
                                    schema_key_field |-> schema_key_field]]
    ELSE [NoField EXCEPT !.pc = "built", !.schema = schema, !.schema_map = schema_map,
                         !.schema_key_field = schema_key_field,
                         !.given = [schema |-> schema, schema_map |-> schema_map,
                                    schema_key_field |-> schema_key_field]]

\* getattr(model_instance, self.schema_key_field, None)
KeyValueOf(f, model_instance) ==
    IF model_instance.t = "object" /\ f.schema_key_field.k \in DOMAIN model_instance.attrs
    THEN model_instance.attrs[f.schema_key_field.k]
    ELSE None

\* schema_ref = self.schema_map.get(key_value) and what follows it
MapLookup(schema_map, key_value) ==
    IF key_value = None THEN Return(None)
    ELSE IF key_value.k \notin DOMAIN schema_map.m THEN Return(None)
    ELSE resolve_schema_class(schema_map.m[key_value.k])

\* Mutant: a key value that selects no schema selects the first one listed.
EAVField_resolve_schema_Fallback(f, model_instance) ==
    IF f.schema # None THEN resolve_schema_class(f.schema)
    ELSE IF f.schema_map # None /\ f.schema_key_field # None
    THEN IF DOMAIN f.schema_map.m = {} THEN Return(None)
         ELSE resolve_schema_class(f.schema_map.m[CHOOSE k \in DOMAIN f.schema_map.m : TRUE])
    ELSE Return(None)

\* EAVField._resolve_schema
EAVField_resolve_schema(f, model_instance) ==
    IF f.schema # None THEN resolve_schema_class(f.schema)
    ELSE IF f.schema_map # None /\ f.schema_key_field # None
    THEN MapLookup(f.schema_map, KeyValueOf(f, model_instance))
    ELSE Return(None)

\* json.dumps(value) succeeds: None, booleans, numbers, strings, and lists
\* and dicts of such; a Decimal is a TypeError.
RECURSIVE JsonSerializable(_)
JsonSerializable(v) ==
    CASE v.t = "dec" -> FALSE
      [] v.t = "list" -> \A i \in 1..Len(v.items) : JsonSerializable(v.items[i])
      [] v.t = "dict" -> \A k \in DOMAIN v.m : JsonSerializable(v.m[k])
      [] OTHER -> TRUE

\* super().validate(value, model_instance): django's JSONField.validate, for
\* a value that is not None.
JSONField_validate(value) ==
    IF JsonSerializable(value) THEN Return(None)
    ELSE ValidationError(<<"Value must be valid JSON.">>)

\* schema_cls.validate(value): the cleaned mapping is dropped.
SchemaChecked(value, model_instance, c, r) ==
    [value |-> value, instance |-> model_instance,
     out |-> IF r.ok THEN Return(None) ELSE r, schemaCalls |-> 1, cls |-> c]

Unchecked(value, model_instance, out) ==
    [value |-> value, instance |-> model_instance, out |-> out, schemaCalls |-> 0, cls |-> ""]

ValidateWith(hp, cl, value, model_instance, schema_cls) ==
    IF ~schema_cls.ok THEN Unchecked(value, model_instance, schema_cls)
    ELSE IF schema_cls.v = None THEN Unchecked(value, model_instance, Return(None))
    ELSE IF schema_cls.v.t # "class"
    THEN Unchecked(value, model_instance, Raise("AttributeError"))
    ELSE SchemaChecked(value, model_instance, schema_cls.v.c,
                       EAVSchema_validate(hp, cl, schema_cls.v.c, value))

\* EAVField.validate
EAVField_validate(hp, cl, f, value, model_instance) ==
    IF ~JSONField_validate(value).ok
    THEN Unchecked(value, model_instance, JSONField_validate(value))
    ELSE IF value.t # "dict" THEN Unchecked(value, model_instance, Return(None))
    ELSE ValidateWith(hp, cl, value, model_instance, EAVField_resolve_schema(f, model_instance))

\* {k: _schema_to_path(v) for k, v in self.schema_map.items()}
PathsOf(schema_map) ==
    IF schema_map = None THEN None
    ELSE PyDict([k \in DOMAIN schema_map.m |-> schema_to_path(schema_map.m[k])])

\* EAVField.deconstruct: the three keyword arguments; a key that is not
\* emitted reads as None, which is the constructor's default for it.
EAVField_deconstruct(f) ==
    [schema |-> IF f.schema # None THEN schema_to_path(f.schema) ELSE None,
     schema_map |-> PathsOf(f.schema_map),
     schema_key_field |-> f.schema_key_field]

\* The references, mappings and key fields a field is constructed with.
PathA == PyStr(<<"m", ".", "A">>)
PathZ == PyStr(<<"m", ".", "Z">>)

SchemaRefs == {ClassRef("A"), ClassRef("I"), PathA, PathZ}

SchemaMaps ==
    {PyDict(<<>>),
     PyDict([k \in {"x"} |-> ClassRef("A")]),
     PyDict([k \in {"x", "y"} |-> IF k = "x" THEN ClassRef("A") ELSE ClassRef("B")]),
     PyDict([k \in {"x", "y"} |-> IF k = "x" THEN PathA ELSE ClassRef("I")])}

KeyFields == {None, Key("kind")}

\* model_instance: None, or an object with the key field set, or without it.
ModelInstances ==
    {None, [t |-> "object", attrs |-> [a \in {"other"} |-> Key("x")]]}
    \cup {[t |-> "object", attrs |-> [a \in {"kind"} |-> v]] :
             v \in {None, Key("x"), Key("y"), Key("q")}}

FieldValues ==
    {PyDict(<<>>),
     PyDict([k \in {"count"} |-> PyInt(5)]),
     PyDict([k \in {"count"} |-> PyInt(-1)]),
     PyDict([k \in {"rate"} |-> PyFloat(1)]),
     PyDict([k \in {"anything"} |-> Ab]),
     PyDict([k \in {"rate"} |-> Dec(0, 5, -1)]),
     PyList(<<>>), Ab}

InitField ==
    /\ heap = OptionalSchema.heap
    /\ classes = OptionalSchema.classes
    /\ call = IdleCall
    /\ calls = 0
    /\ desc = None
    /\ raw = None
    /\ conv = NoConv
    /\ got = NoGot
    /\ op = NoOp
    /\ loaded = NotLoaded
    /\ applied = NotApplied
    /\ threads = <<>>
    /\ field = NoField

\* EAVField(schema=..., schema_map=..., schema_key_field=...)
Construct ==
    /\ field.pc = "new"
    /\ \E schema \in SchemaRefs \cup {None}, schema_map \in SchemaMaps \cup {None},
          schema_key_field \in KeyFields :
          field' = EAVField_init(schema, schema_map, schema_key_field)
    /\ UNCHANGED <<heap, classes, call, calls, desc, raw, conv, got, op, loaded, applied, threads>>

\* field.validate(value, model_instance)
FieldValidate ==
    /\ field.pc = "built"
    /\ field.checked = NoChecked
    /\ \E value \in FieldValues, model_instance \in ModelInstances :
          field' = [field EXCEPT !.checked = EAVField_validate(heap, classes, field, value,
                                                               model_instance)]
    /\ UNCHANGED <<heap, classes, call, calls, desc, raw, conv, got, op, loaded, applied, threads>>

\* field.deconstruct()
Deconstruct ==
    /\ field.pc = "built"
    /\ field.kwargs = NoKwargs
    /\ field' = [field EXCEPT !.kwargs = EAVField_deconstruct(field)]
    /\ UNCHANGED <<heap, classes, call, calls, desc, raw, conv, got, op, loaded, applied, threads>>

Rebuilt(f, g) ==
    [g EXCEPT !.rebuilt = TRUE, !.origin = f.given, !.emitted = f.kwargs]

\* EAVField(**kwargs) with the kwargs deconstruct emitted, as a migration does.
Reconstruct ==
    /\ field.pc = "built"
    /\ field.kwargs # NoKwargs
    /\ ~field.rebuilt
    /\ field' = Rebuilt(field, EAVField_init(field.kwargs.schema, field.kwargs.schema_map,
                                             field.kwargs.schema_key_field))
    /\ UNCHANGED <<heap, classes, call, calls, desc, raw, conv, got, op, loaded, applied, threads>>

NextField == Construct \/ FieldValidate \/ Deconstruct \/ Reconstruct

SpecField == InitField /\ [][NextField]_vars

(***************************************************************************)
(* Properties of EAVSchema.validate, stated over the call in progress.     *)
(***************************************************************************)
ConfigAttrs == classes["Config"].attrs

AttrNames == [i \in 1..Len(ConfigAttrs) |-> ConfigAttrs[i][1]]

AttrOf(k) == heap[OdGet(ConfigAttrs, k)]

Done == call.pc = "done"

\* The call got past the dict check, so call.data is the mapping validated.
OnMapping == Done /\ call.data.t = "dict"

\* What the descriptor declared under k does with the call's input for k.
OwnOutcome(k) == EAVAttribute_validate(AttrOf(k), DictGet(call.data.m, k))

UnknownKeys == DOMAIN call.data.m \ OdKeys(ConfigAttrs)

\* validate ended by raising the aggregated field-level report.
FieldReport ==
    /\ OnMapping
    /\ call.crossCalls = 0
    /\ call.result.exc = "ValidationError"
    /\ call.result.dict # None

\* Python equality of two stored values (identity or ==), and of two dicts.
ValEq(x, y) == x = y \/ PyEq(x, y)

DictEq(d, e) ==
    /\ DOMAIN d.m = DOMAIN e.m
    /\ \A k \in DOMAIN d.m : ValEq(d.m[k], e.m[k])

\* C1: validate does not fail fast.  For every schema and mapping input, a
\* declared attribute's own descriptor validation fails on its input value
\* (or absence) exactly when validate raises the aggregated error report with
\* that attribute's key in it, whatever else fails in the same call.
C1_AllFailuresReported ==
    OnMapping =>
        \A k \in OdKeys(ConfigAttrs) :
            ~OwnOutcome(k).ok <=> (FieldReport /\ k \in DOMAIN call.result.dict.m)

\* C2: every unknown input key is in the error report with the message
\* "Unknown config key: <key>.", validate fails whenever there is one, and
\* every declared attribute is still validated in that call.
C2_UnknownKeysReported ==
    (OnMapping /\ UnknownKeys # {}) =>
        /\ FieldReport
        /\ \A k \in UnknownKeys :
              call.result.dict.m[k] = <<"Unknown config key: " \o k \o ".">>
        /\ call.validated = AttrNames

\* C3: an argument that is neither None nor a dict fails at once with the
\* single key "__all__" ("Config must be a dict."), no attribute validated
\* and validate_cross not invoked; validate(None) has the outcome of
\* validate({}).
C3_NonDictAndNone ==
    /\ (Done /\ call.arg # None /\ call.arg.t # "dict") =>
          /\ call.result = ValidationErrorDict(
                              [k \in {"__all__"} |-> <<"Config must be a dict.">>])
          /\ call.validated = <<>>
          /\ call.crossCalls = 0
    /\ (Done /\ call.arg = None) =>
          call.result = EAVSchema_validate(heap, classes, "Config", PyDict(EmptyMap))

C3_WitnessNonDict == Done /\ call.arg = Ab /\ ~call.result.ok

\* C4: validate_cross is invoked at most once per call, only after every
\* declared attribute has been validated and only when no unknown-key or
\* field-level error was collected; it receives the cleaned mapping, and when
\* it fails its own report is what the caller gets, instead of the mapping.
C4_CrossAfterCleanPass ==
    /\ call.crossCalls <= 1
    /\ (call.pc = "cross" \/ call.crossCalls = 1) =>
          /\ call.validated = AttrNames
          /\ DOMAIN call.errors = {}
    /\ call.crossCalls = 1 =>
          /\ call.crossArg = PyDict(call.cleaned)
          /\ call.result.ok =>
                /\ call.result.v = PyDict(call.cleaned)
                /\ validate_cross(classes["Config"].hook, call.cleaned).ok
          /\ ~call.result.ok =>
                call.result = validate_cross(classes["Config"].hook, call.cleaned)

C4_WitnessCrossFails == Done /\ call.crossCalls = 1 /\ ~call.result.ok

\* C5 as claimed: for every schema and every input on which validate
\* succeeds, validating the returned mapping succeeds and returns an equal
\* mapping.
C5_Idempotent ==
    (Done /\ call.prev # NoResult) =>
        call.result.ok /\ DictEq(call.result.v, call.prev.v)

\* Every default, serialised with to_json, is accepted by its own descriptor
\* and serialises back to the same value.
DefaultReproduced(attr) ==
    \/ attr.default = None
    \/ /\ EAVAttribute_validate(attr, to_json(attr, attr.default)).ok
       /\ ValEq(to_json(attr, EAVAttribute_validate(attr, to_json(attr, attr.default)).v),
                to_json(attr, attr.default))

DefaultsReproduced == \A k \in OdKeys(ConfigAttrs) : DefaultReproduced(AttrOf(k))

\* C5 amended: in a schema whose defaults are reproduced by their own
\* descriptors, validating the mapping a successful validate returned
\* succeeds and returns an equal mapping.
C5_IdempotentGoodDefaults ==
    (Done /\ call.prev # NoResult /\ DefaultsReproduced) =>
        call.result.ok /\ DictEq(call.result.v, call.prev.v)

C5_WitnessRevalidated ==
    /\ Done /\ call.prev # NoResult /\ DefaultsReproduced
    /\ call.result.ok
    /\ \E k \in DOMAIN call.result.v.m : AttrOf(k).default = None

\* C7: on success every key of the returned mapping is a declared name, a
\* declared name is a key exactly when the input has a non-null value for it
\* or its descriptor has a default, and no key maps to null.
C7_KeysOfCleaned ==
    (OnMapping /\ call.result.ok) =>
        /\ DOMAIN call.result.v.m \subseteq OdKeys(ConfigAttrs)
        /\ \A k \in OdKeys(ConfigAttrs) :
              k \in DOMAIN call.result.v.m
                 <=> (DictGet(call.data.m, k) # None \/ AttrOf(k).default # None)
        /\ \A k \in DOMAIN call.result.v.m : call.result.v.m[k] # None

C7_WitnessOmitted ==
    /\ OnMapping /\ call.result.ok
    /\ \E k \in OdKeys(ConfigAttrs) : k \notin DOMAIN call.result.v.m
    /\ \E k \in OdKeys(ConfigAttrs) : k \in DOMAIN call.result.v.m

Validated == conv.pc # "new"

\* C6 as claimed: for every descriptor and every non-null value v its
\* validate returns, from_json(to_json(v)) equals v, and for EAVDecimal has
\* the same string representation as v.
C6_RoundTrip ==
    (conv.pc = "restored" /\ conv.out.v # None) =>
        /\ conv.back.ok
        /\ PyEq(conv.back.v, conv.out.v)
        /\ desc.cls = "EAVDecimal" => Str(conv.back.v) = Str(conv.out.v)

\* v came out of the descriptor's coercion: validate returned it for a
\* non-null raw value, or it is a default that _coerce leaves unchanged.
Coerced == raw # None \/ Coerce(desc, conv.out.v) = Return(conv.out.v)

\* C6 amended: for every descriptor and every non-null value v other than
\* NaN that validate returns for a non-null raw value, or returns as a
\* default its own coercion leaves unchanged, from_json(to_json(v)) equals v;
\* for EAVDecimal the string representation is the same, NaN included.
C6_RoundTripCoerced ==
    (conv.pc = "restored" /\ conv.out.v # None /\ Coerced) =>
        /\ conv.back.ok
        /\ ~IsNaN(conv.out.v) => PyEq(conv.back.v, conv.out.v)
        /\ desc.cls = "EAVDecimal" => Str(conv.back.v) = Str(conv.out.v)

C6_WitnessTrailingZeros ==
    /\ conv.pc = "restored"
    /\ desc.cls = "EAVDecimal"
    /\ conv.out.v = Dec(0, 6500, -5)
    /\ conv.json = PyStr(<<"0", ".", "0", "6", "5", "0", "0">>)
    /\ conv.back.v = Dec(0, 6500, -5)

\* C9: on None, validate fails with "<name> is required." exactly when the
\* attribute is required and has no default; otherwise it returns the
\* default as it is (None when there is none), with no coercion, constraint
\* or choice check applied to it.
C9_AbsentValue ==
    (Validated /\ raw = None) =>
        IF desc.required /\ desc.default = None
        THEN conv.out = ValidationError(<<desc.name \o " is required.">>)
        ELSE conv.out = Return(desc.default)

\* a required attribute whose default would not pass its own checks
C9_WitnessUncheckedDefault ==
    /\ Validated /\ raw = None
    /\ desc.required /\ desc.default # None
    /\ ~ValidatePresent(desc, desc.default).ok
    /\ conv.out.ok

TypeMismatch(attr) ==
    CASE attr.cls = "EAVString" -> ValidationError(<<attr.name \o " must be a string.">>)
      [] attr.cls = "EAVBoolean" -> ValidationError(<<attr.name \o " must be a boolean.">>)
      [] attr.cls = "EAVInteger" -> ValidationError(<<attr.name \o " must be an integer.">>)
      [] attr.cls = "EAVFloat" -> ValidationError(<<attr.name \o " must be a number.">>)
      [] OTHER -> ValidationError(<<attr.name \o " must be a decimal.">>)

\* C10: True and False are rejected with a type-mismatch error by the
\* String, Integer, Float and Decimal descriptors, and the Boolean descriptor
\* rejects every non-null value that is not a boolean, the integers 0 and 1
\* included.
C10_BoolOnlyBoolean ==
    Validated =>
        /\ (raw.t = "bool" /\ desc.cls # "EAVBoolean") => conv.out = TypeMismatch(desc)
        /\ (raw.t \notin {"bool", "none"} /\ desc.cls = "EAVBoolean") =>
              conv.out = TypeMismatch(desc)

C10_WitnessIntegerRejectsBool ==
    /\ Validated
    /\ raw = PyBool(TRUE)
    /\ desc.cls = "EAVInteger"
    /\ desc.min_value = None /\ desc.choices = None
    /\ ~conv.out.ok

(***************************************************************************)
(* Properties of schema definition (specification SpecMeta).               *)
(***************************************************************************)
\* A merged attribute set as its keys, in order, with the descriptors stored
\* under them.
MergedSet(hp, cl, c) ==
    [i \in 1..Len(cl[c].attrs) |-> <<cl[c].attrs[i][1], hp[cl[c].attrs[i][2]]>>]

MetaValues == {None, Ab, Abc, PyInt(0), PyInt(7)}

\* The report r of the schema's validate has key k exactly when the
\* descriptor's own outcome is a failure, and then with its messages.
OwnReport(r, own, k) ==
    IF own.ok THEN r.ok \/ k \notin DOMAIN r.dict.m
    ELSE ~r.ok /\ k \in DOMAIN r.dict.m /\ r.dict.m[k] = own.msgs

\* C11: once a class is defined, each name its body declares is stored in
\* its merged set with the body's descriptor and validated by that descriptor
\* alone, and the merged set of every class defined before, keys and
\* descriptors, is as it was before the definition; a later change of one
\* class's merged set leaves the merged set of every other class as it was.
C11_ParentUnaffected ==
    /\ op.kind = "define" =>
          /\ \A k \in OdKeys(op.ns) :
                /\ OdGet(classes[op.cls].attrs, k) = OdGet(op.ns, k)
                /\ \A v \in MetaValues :
                      OwnReport(EAVSchema_validate(heap, classes, op.cls,
                                                   PyDict([x \in {k} |-> v])),
                                EAVAttribute_validate(heap[OdGet(op.ns, k)], v), k)
          /\ \A p \in DOMAIN op.classes :
                MergedSet(heap, classes, p) = MergedSet(op.heap, op.classes, p)
    /\ op.kind \in {"setitem", "delitem"} =>
          \A p \in DOMAIN classes \ {op.cls} :
              MergedSet(heap, classes, p) = MergedSet(op.heap, op.classes, p)

\* C12: after any sequence of schema definitions, the descriptor stored
\* under key k of any class's merged set has name k, and a definition does
\* not change the name of a descriptor bound by an earlier definition.
C12_NamesBound ==
    op.edits = 0 =>
        /\ \A c \in DOMAIN classes :
              \A k \in OdKeys(classes[c].attrs) : heap[OdGet(classes[c].attrs, k)].name = k
        /\ \A i \in 1..Len(op.heap) : op.heap[i].name # "" => heap[i].name = op.heap[i].name

\* C20: adding, replacing or removing an entry of the mapping that
\* get_attributes returned changes no class's merged set, nor what
\* get_attributes returns afterwards, nor the outcome of validate.
C20_ReturnedCopy ==
    op.kind \in {"gotset", "gotdel"} =>
        /\ classes = op.classes
        /\ heap = op.heap
        /\ \A c \in UserClasses(classes) :
              /\ get_attributes(classes, got, c).attrs = op.classes[c].attrs
              /\ \A v \in MetaValues :
                    EAVSchema_validate(heap, classes, c, PyDict([x \in {"a"} |-> v]))
                        = EAVSchema_validate(op.heap, op.classes, c,
                                             PyDict([x \in {"a"} |-> v]))

\* an entry of a non-empty merged set was removed from the returned mapping
C20_WitnessEntryRemoved ==
    /\ op.kind = "gotdel"
    /\ classes[got.cls].attrs # <<>>
    /\ got.attrs = <<>>
    /\ classes[got.cls].bases # <<"EAVSchema">>

(***************************************************************************)
(* Properties of the Decimal descriptor and of from_json (SpecAttr).       *)
(***************************************************************************)
\* Digits after the decimal point and digits of the coefficient.
FracDigits(d) == IF d.exp < 0 THEN -d.exp ELSE 0

SigDigits(d) == Len(NatToChars(d.coef))

DigitsWithin(attr, d) ==
    /\ attr.decimal_places # None => FracDigits(d) <= attr.decimal_places.n
    /\ attr.max_digits # None =>
          SigDigits(d) - FracDigits(d)
              <= attr.max_digits.n
                 - (IF attr.decimal_places = None THEN 0 ELSE attr.decimal_places.n)

\* An EAVDecimal descriptor with no range and no choices: only the digit
\* check can reject a decimal.
DigitsOnly(attr) ==
    /\ attr.cls = "EAVDecimal"
    /\ attr.min_value = None /\ attr.max_value = None /\ attr.choices = None

Dec52 == Bound(EAVDecimal(PyInt(5), PyInt(2), None, None, TRUE, None, None))

\* C13: the digit check accepts a finite decimal exactly when its fractional
\* digits do not exceed decimal_places (if set) and its total digits minus
\* its fractional digits do not exceed max_digits minus decimal_places (if
\* max_digits is set; decimal_places counts as 0 when unset).  With
\* max_digits=5 and decimal_places=2, 999.99 is accepted and 10000.00
\* rejected; decimal_places=2 rejects 10.501.
C13_DigitCheck ==
    (Validated /\ DigitsOnly(desc) /\ raw.t = "dec" /\ raw.k = "fin") =>
        /\ conv.out.ok <=> DigitsWithin(desc, raw)
        /\ conv.out.ok => conv.out.v = raw
        /\ (desc = Dec52 /\ raw = Dec(0, 99999, -2)) => conv.out.ok
        /\ (desc = Dec52 /\ raw = Dec(0, 1000000, -2)) => ~conv.out.ok
        /\ (desc.decimal_places = PyInt(2) /\ raw = Dec(0, 10501, -3)) => ~conv.out.ok

C13_WitnessTooManyWhole ==
    /\ Validated
    /\ desc = Dec52
    /\ raw = Dec(0, 99999, 0)
    /\ conv.out = ValidationError(<<"a has too many digits (max 5).">>)

\* A finite decimal without the trailing zeros of its coefficient; two
\* finite decimals are the same number when these forms agree.
RECURSIVE Normal(_)
Normal(d) ==
    IF d.coef = 0 THEN Dec(0, 0, 0)
    ELSE IF d.coef % 10 = 0 THEN Normal(Dec(d.sign, d.coef \div 10, d.exp + 1))
    ELSE d

\* C14: two finite decimals that are numerically equal get the same outcome
\* from the digit check, whatever max_digits and decimal_places are.
C14_SameNumberSameOutcome ==
    (Validated /\ DigitsOnly(desc) /\ raw.t = "dec" /\ raw.k = "fin") =>
        \A e \in Decimals :
            (e.k = "fin" /\ Normal(e) = Normal(raw)) =>
                EAVAttribute_validate(desc, e).ok = conv.out.ok

\* C15: for every descriptor and every raw value, validate returns a value
\* or fails with a ValidationError that carries a list of messages.
C15_OnlyValidationErrors ==
    Validated =>
        \/ conv.out.ok
        \/ conv.out.exc = "ValidationError" /\ conv.out.dict = None /\ conv.out.msgs # <<>>

\* The raw value can be converted to the descriptor's type.
Convertible(attr, v) ==
    IF attr.cls = "EAVDecimal" THEN DecimalFromChars(Str(v)).ok ELSE Coerce(attr, v).ok

\* C16: from_json on a non-null value that cannot be converted to the
\* descriptor's type fails; it does not return a substitute value.
C16_FromJsonFails ==
    (loaded.pc = "loaded" /\ raw # None /\ ~Convertible(desc, raw)) => ~loaded.back.ok

(***************************************************************************)
(* Properties of apply_defaults (SpecDefaults) and of validate on the      *)
(* empty input (Spec).                                                     *)
(***************************************************************************)
\* The mapping that sends each name of ks to its descriptor's to_json(default).
DefaultsOf(ks) == [k \in ks |-> to_json(AttrOf(k), AttrOf(k).default)]

WithDefault == {k \in OdKeys(ConfigAttrs) : AttrOf(k).default # None}

\* The result res of apply_defaults for the input mapping in.
Defaulted(in, res) ==
    /\ DOMAIN res = DOMAIN in \cup WithDefault
    /\ \A k \in DOMAIN in : res[k] = in[k]
    /\ \A k \in WithDefault \ DOMAIN in : res[k] = DefaultsOf(WithDefault)[k]

\* C17: apply_defaults on a mapping or None raises nothing and returns a new
\* mapping with every input key and its input value, plus to_json(default)
\* for each declared attribute that is missing from the input and has a
\* default, and no other key; the input mapping is left as it was.
C17_ApplyDefaults ==
    (applied.pc = "done" /\ (applied.arg = None \/ applied.arg.t = "dict")) =>
        /\ applied.out.ok
        /\ applied.out.v.t = "dict"
        /\ Defaulted(IF applied.arg = None THEN EmptyMap ELSE applied.arg.m,
                     applied.out.v.m)
        /\ applied.data = applied.arg
        /\ applied.fresh

\* an unknown key and a value its descriptor rejects are kept, a default added
C17_WitnessKeptAndFilled ==
    /\ applied.pc = "done"
    /\ applied.arg.t = "dict"
    /\ OdKeys(ConfigAttrs) = {"a", "b"}
    /\ "z" \in DOMAIN applied.arg.m
    /\ "a" \in DOMAIN applied.arg.m
    /\ ~EAVAttribute_validate(AttrOf("a"), applied.arg.m["a"]).ok
    /\ "b" \in DOMAIN applied.out.v.m \ DOMAIN applied.arg.m

AllOptionalWithDefault ==
    \A k \in OdKeys(ConfigAttrs) : ~AttrOf(k).required /\ AttrOf(k).default # None

EmptyInput == call.arg = None \/ call.arg = PyDict(EmptyMap)

\* C18 as claimed: for every schema whose attributes are all optional with a
\* default, validate on {} or None succeeds and returns the mapping of every
\* declared name to to_json(default), the mapping apply_defaults returns for
\* the empty input.
C18_EmptyInputDefaults ==
    (Done /\ EmptyInput /\ AllOptionalWithDefault) =>
        /\ call.result = Return(PyDict(DefaultsOf(OdKeys(ConfigAttrs))))
        /\ call.result = apply_defaults(heap, classes, "Config", PyDict(EmptyMap)).out

\* C18 amended: the same, for schemas whose validate_cross accepts the
\* defaulted mapping.
C18_EmptyInputDefaultsCrossPasses ==
    (Done /\ EmptyInput /\ AllOptionalWithDefault
          /\ validate_cross(classes["Config"].hook, DefaultsOf(OdKeys(ConfigAttrs))).ok) =>
        /\ call.result = Return(PyDict(DefaultsOf(OdKeys(ConfigAttrs))))
        /\ call.result = apply_defaults(heap, classes, "Config", PyDict(EmptyMap)).out

\* two attributes, one of them with a falsy default
C18_WitnessFalsyDefault ==
    /\ Done /\ call.arg = None /\ AllOptionalWithDefault
    /\ call.result.ok
    /\ DOMAIN call.result.v.m = {"a", "b"}
    /\ \E k \in {"a", "b"} : ~Truthy(call.result.v.m[k])

(***************************************************************************)
(* Properties of concurrent validate calls (SpecConc).                     *)
(***************************************************************************)
\* C19: in any interleaving of validate calls on one schema, no step changes
\* a descriptor, the merged attribute set or a caller's input mapping, and
\* each call ends with the outcome it has when it runs alone.
C19_CallsIsolated ==
    /\ heap = op.heap
    /\ classes = op.classes
    /\ \A t \in DOMAIN threads :
          /\ (threads[t].pc \notin {"idle", "enter"} /\ threads[t].arg.t = "dict") =>
                threads[t].data = threads[t].arg
          /\ threads[t].pc = "done" =>
                threads[t].result
                    = EAVSchema_validate(op.heap, op.classes, "Config", threads[t].arg)

\* both calls are inside the attribute loop of a two-attribute schema
C19_WitnessInterleaved ==
    /\ DOMAIN threads = Threads
    /\ Len(ConfigAttrs) = 2
    /\ \A t \in Threads : threads[t].pc = "loop" /\ threads[t].idx = 2
    /\ threads[1].arg # threads[2].arg
    /\ threads[1].cleaned # threads[2].cleaned

(***************************************************************************)
(* Properties of coercion, ranges and choices (SpecAttr).                  *)
(***************************************************************************)
\* The descriptor has no constraint and no choices: validate of a present
\* value is its coercion.
Unconstrained(attr) ==
    /\ attr.choices = None /\ attr.max_length = None
    /\ attr.min_value = None /\ attr.max_value = None
    /\ attr.max_digits = None /\ attr.decimal_places = None

\* The exactly parsed decimal of an integer, a float or a string.
Parsed(v) == DecimalFromChars(Str(v))

InvalidDecimal(attr) == ValidationError(<<attr.name \o " must be a valid decimal.">>)

CoercedAs(attr, v, out) ==
    CASE attr.cls = "EAVString" ->
            IF v.t = "str" THEN Unconstrained(attr) => out = Return(v)
            ELSE out = TypeMismatch(attr)
      [] attr.cls = "EAVInteger" ->
            IF v.t = "int" THEN Unconstrained(attr) => out = Return(v)
            ELSE out = TypeMismatch(attr)
      [] attr.cls = "EAVFloat" ->
            IF v.t = "float" THEN Unconstrained(attr) => out = Return(v)
            ELSE IF v.t = "int"
            THEN Unconstrained(attr) => (out.ok /\ out.v.t = "float" /\ PyEq(out.v, v))
            ELSE out = TypeMismatch(attr)
      [] attr.cls = "EAVDecimal" ->
            IF v.t = "dec" THEN Unconstrained(attr) => out = Return(v)
            ELSE IF v.t \in {"int", "float", "str"}
            THEN IF Parsed(v).ok THEN Unconstrained(attr) => out = Return(Parsed(v).v)
                 ELSE out = InvalidDecimal(attr)
            ELSE out = TypeMismatch(attr)
      [] OTHER -> TRUE

DecimalPlain == Bound(EAVDecimal(None, None, None, None, TRUE, None, None))

\* C24: for a raw value that is neither null nor a boolean, String accepts
\* only strings, unchanged; Integer only integers; Float floats, and
\* integers as the equal float, and no string; Decimal accepts Decimals
\* unchanged and integers, floats and numeric strings as the parsed decimal,
\* and rejects any other string with "must be a valid decimal."; every other
\* kind of value fails with the type-mismatch error.
C24_Coercion ==
    (Validated /\ raw.t \notin {"none", "bool"}) =>
        /\ CoercedAs(desc, raw, conv.out)
        /\ desc = DecimalPlain =>
              /\ raw = Str150 => conv.out = Return(Dec(0, 150, -2))
              /\ raw = PyInt(7) => conv.out = Return(Dec(0, 7, 0))
              /\ raw = PyFloat(3) => conv.out = Return(Dec(0, 15, -1))
              /\ raw = PyStr(<<"1", "E", "+", "3">>) => conv.out = Return(Dec(0, 1, 3))
              /\ raw = Ab => conv.out = InvalidDecimal(desc)

C24_WitnessIntegerWidened ==
    /\ Validated
    /\ desc.cls = "EAVFloat" /\ Unconstrained(desc)
    /\ raw = PyInt(7)
    /\ conv.out = Return(PyFloat(14))

\* a <= b for numbers; nothing is <= or >= a NaN.
Le(a, b) == ~IsNaN(a) /\ ~IsNaN(b) /\ NumCmp(a, b) <= 0

InRange(attr, v) ==
    /\ attr.min_value # None => Le(attr.min_value, v)
    /\ attr.max_value # None => Le(v, attr.max_value)

\* Only the range (or the length) can reject a value of the right type.
RangeOnly(attr) ==
    /\ attr.choices = None /\ attr.max_digits = None /\ attr.decimal_places = None

\* C25: a value of an Integer, Float or Decimal descriptor passes the range
\* check exactly when min_value <= v <= max_value (each bound if set), and
\* a string passes the length check exactly when its length <= max_length.
C25_InclusiveBounds ==
    (Validated /\ raw # None /\ RangeOnly(desc) /\ Coerce(desc, raw).ok) =>
        IF desc.cls = "EAVString"
        THEN conv.out.ok <=> (desc.max_length # None => Len(raw.s) <= desc.max_length.n)
        ELSE conv.out.ok <=> InRange(desc, Coerce(desc, raw).v)

\* C26: with choices set, a value validate returns for a present raw value
\* is a member of choices; the test is made on the coerced value once the
\* constraint check has passed, and a non-member fails with "must be one
\* of: ...".
C26_ChoicesAfterConstraints ==
    (Validated /\ raw # None /\ desc.choices # None) =>
        /\ conv.out.ok => PyIn(conv.out.v, desc.choices.items)
        /\ ~Coerce(desc, raw).ok => conv.out = Coerce(desc, raw)
        /\ Coerce(desc, raw).ok =>
              IF ~CheckConstraints(desc, Coerce(desc, raw).v).ok
              THEN conv.out = CheckConstraints(desc, Coerce(desc, raw).v)
              ELSE IF PyIn(Coerce(desc, raw).v, desc.choices.items)
              THEN conv.out = Return(Coerce(desc, raw).v)
              ELSE conv.out = ValidationError(<<desc.name \o " must be one of: "
                                                \o JoinReprs(desc.choices.items) \o ".">>)

\* 7 is a choice but above max_value: the range error is the one raised
C26_WitnessConstraintFirst ==
    /\ Validated
    /\ desc.cls = "EAVInteger" /\ desc.choices = PyList(<<PyInt(1), PyInt(7)>>)
    /\ raw = PyInt(7)
    /\ conv.out = ValidationError(<<"a must be <= 5.">>)

\* C28: with max_digits = m and decimal_places = d (0 when unset), every
\* decimal that validate accepts is below 10^(m - d) in absolute value: its
\* digits and its exponent together are at most m - d.
C28_WholeDigitsBounded ==
    (Validated /\ raw # None /\ desc.cls = "EAVDecimal" /\ desc.max_digits # None
               /\ conv.out.ok /\ conv.out.v.k = "fin" /\ conv.out.v.coef # 0) =>
        SigDigits(conv.out.v) + conv.out.v.exp
            <= desc.max_digits.n
               - (IF desc.decimal_places = None THEN 0 ELSE desc.decimal_places.n)

(***************************************************************************)
(* A null value and a missing key (Spec).                                  *)
(***************************************************************************)
\* The mapping m with the key k removed.
Without(m, k) == [j \in DOMAIN m \ {k} |-> m[j]]

NullKeys == {k \in OdKeys(ConfigAttrs) \cap DOMAIN call.arg.m : call.arg.m[k] = None}

\* C29: for every declared key that the input maps to None, a finished
\* call has the outcome (the cleaned mapping returned or the error raised)
\* of validating the input with that key removed.
C29_NullAsMissing ==
    (Done /\ call.arg.t = "dict") =>
        \A k \in NullKeys :
            call.result = EAVSchema_validate(heap, classes, "Config",
                                             PyDict(Without(call.arg.m, k)))

\* a required key given as None is reported as required
C29_WitnessNullRequired ==
    /\ Done /\ call.arg.t = "dict"
    /\ "a" \in NullKeys
    /\ AttrOf("a").required
    /\ FieldReport
    /\ call.result.dict.m["a"] = <<"a is required.">>

(***************************************************************************)
(* The merged set of a schema with several parents (SpecFold).             *)
(***************************************************************************)
\* The positions of the bases whose merged set, as it was when the class
\* was defined, has the key k.
BasesWith(k) ==
    {i \in 1..Len(classes[op.cls].bases) :
        k \in OdKeys(op.classes[classes[op.cls].bases[i]].attrs)}

LastBaseWith(k) ==
    classes[op.cls].bases[CHOOSE i \in BasesWith(k) : \A j \in BasesWith(k) : j <= i]

\* C23: the merged set of the class just defined has the keys of its
\* parents' merged sets and of its own body; a key its body declares holds
\* the body's descriptor, and any other key holds the descriptor of the
\* last-listed parent whose merged set has the key.
C23_FoldOrder ==
    op.kind = "define" =>
        /\ OdKeys(classes[op.cls].attrs)
              = OdKeys(op.ns) \cup {k \in MetaKeys : BasesWith(k) # {}}
        /\ \A k \in OdKeys(classes[op.cls].attrs) :
              OdGet(classes[op.cls].attrs, k)
                 = IF k \in OdKeys(op.ns) THEN OdGet(op.ns, k)
                   ELSE OdGet(op.classes[LastBaseWith(k)].attrs, k)

\* two parents declare "a" with different descriptors and the child does not
C23_WitnessParentsCollide ==
    /\ op.kind = "define"
    /\ classes[op.cls].bases = <<"P", "Q">>
    /\ "a" \notin OdKeys(op.ns)
    /\ "a" \in OdKeys(classes["P"].attrs) \cap OdKeys(classes["Q"].attrs)
    /\ OdGet(classes["P"].attrs, "a") # OdGet(classes["Q"].attrs, "a")
    /\ OdGet(classes[op.cls].attrs, "a") = OdGet(classes["Q"].attrs, "a")

(***************************************************************************)
(* EAVField (SpecField).                                                   *)
(***************************************************************************)
Polymorphic ==
    /\ field.pc = "built"
    /\ field.schema = None
    /\ field.schema_map # None
    /\ field.schema_key_field # None

\* validate was called on the field with a dict that is valid JSON.
CheckedDict ==
    /\ field.checked # NoChecked
    /\ field.checked.value.t = "dict"
    /\ \A k \in DOMAIN field.checked.value.m : field.checked.value.m[k].t # "dec"

\* The model instance's value for the key field; None when it has none.
SelectedKey ==
    IF field.checked.instance = None THEN None
    ELSE IF "kind" \in DOMAIN field.checked.instance.attrs
    THEN field.checked.instance.attrs["kind"]
    ELSE None

PathOfClass(c) ==
    CASE c = "A" -> PyStr(<<"m", ".", "A">>)
      [] c = "B" -> PyStr(<<"m", ".", "B">>)
      [] c = "I" -> PyStr(<<"m", ".", "O", ".", "I">>)

\* The class a reference stands for: the class itself, or the class that
\* the module named before the last dot binds to the name after it; ""
\* when there is none.
Denoted(ref) ==
    IF ref.t = "class" THEN ref.c
    ELSE IF \E c \in {"A", "B"} : ref = PathOfClass(c)
    THEN CHOOSE c \in {"A", "B"} : ref = PathOfClass(c)
    ELSE ""

\* What field.validate does when the value is validated against class c.
ValidatedAgainst(c) ==
    /\ field.checked.schemaCalls = 1
    /\ field.checked.cls = c
    /\ field.checked.out
          = IF EAVSchema_validate(heap, classes, c, field.checked.value).ok
            THEN Return(None)
            ELSE EAVSchema_validate(heap, classes, c, field.checked.value)

NotValidated ==
    /\ field.checked.schemaCalls = 0
    /\ field.checked.out = Return(None)

C22_ExclusiveModes ==
    /\ (field.pc # "new" /\ field.given.schema # None /\ field.given.schema_map # None)
          => (field.pc = "failed" /\ field.exc = "ValueError")
    /\ (field.pc # "new" /\ field.given.schema_map # None
                         /\ field.given.schema_key_field = None)
          => (field.pc = "failed" /\ field.exc = "ValueError")
    /\ field.pc = "built" =>
          /\ ~(field.schema # None /\ field.schema_map # None)
          /\ ~(field.schema_map # None /\ field.schema_key_field = None)

ExpectedPath(ref) == IF ref.t = "str" THEN ref ELSE PathOfClass(ref.c)

\* deconstruct emitted the module, a dot and the qualified name for every
\* class, and every string as it was.
EmittedPaths ==
    /\ field.kwargs.schema
          = IF field.schema = None THEN None ELSE ExpectedPath(field.schema)
    /\ field.kwargs.schema_map
          = IF field.schema_map = None THEN None
            ELSE PyDict([k \in DOMAIN field.schema_map.m |->
                            ExpectedPath(field.schema_map.m[k])])
    /\ field.kwargs.schema_key_field = field.schema_key_field

\* The rebuilt field deconstructs to the kwargs it was built from.
SameKwargs ==
    /\ field.pc = "built"
    /\ field.kwargs # NoKwargs => field.kwargs = field.emitted

\* The rebuilt field validates a dict against the class the original
\* field referred to.
ResolvesToOriginal ==
    /\ (field.origin.schema # None /\ field.origin.schema.t = "class")
          => ValidatedAgainst(field.origin.schema.c)
    /\ (field.origin.schema = None /\ Polymorphic /\ SelectedKey # None)
          => (SelectedKey.k \in DOMAIN field.origin.schema_map.m
                => (field.origin.schema_map.m[SelectedKey.k].t = "class"
                      => ValidatedAgainst(field.origin.schema_map.m[SelectedKey.k].c)))

\* C27: deconstruct emits every schema reference as a dotted path (module,
\* dot, qualified name; a string unchanged); the field rebuilt from the
\* emitted kwargs deconstructs to the same kwargs; and the rebuilt field
\* resolves each emitted path to the class the original referred to.
C27_DeconstructRoundTrip ==
    /\ (field.pc = "built" /\ field.kwargs # NoKwargs) => EmittedPaths
    /\ field.rebuilt => SameKwargs
    /\ (field.rebuilt /\ CheckedDict) => ResolvesToOriginal

====
